---- MODULE Spec2Model ----
(***************************************************************************)
(* Model of the linenoisy line editor (editor.go): the Terminal struct,    *)
(* the LineEditor read/dispatch loop, the edit primitives, the History     *)
(* store and the refreshLine renderer.                                     *)
(*                                                                         *)
(* Runes are strings ("a", " ", "TAB", "?").  Output is a sequence of      *)
(* flushed blocks, each a sequence of tokens [k, n]: a text rune is        *)
(* [k |-> rune, n |-> 0], a control sequence is [k |-> name, n |-> arg].    *)
(* Indices of Buffer are 1-based here, 0-based in the source.              *)
(***************************************************************************)
EXTENDS Integers, Sequences, FiniteSets, TLC

\* ---- bounds -------------------------------------------------------------
MaxLen == 2
MaxHist == 1
MaxAddLen == 1

\* ---- input alphabets ------------------------------------------------------
PlainRunes == {"a", " "}
ColsInit == {3}

Prompt == <<">", " ">>

Min(a, b) == IF a < b THEN a ELSE b
Max(a, b) == IF a > b THEN a ELSE b

\* ---- output tokens ------------------------------------------------------
Tok(k, n) == [k |-> k, n |-> n]
Ch(r) == Tok(r, 0)
Text(s) == [i \in 1..Len(s) |-> Ch(s[i])]
Spaces(n) == [i \in 1..n |-> Ch(" ")]
BEL == Tok("BEL", 0)
CR == Tok("CR", 0)
LF == Tok("LF", 0)
EL0 == Tok("EL0", 0)
EL2 == Tok("EL2", 0)

RECURSIVE Repeat(_, _)
Repeat(s, n) == IF n <= 0 THEN <<>> ELSE s \o Repeat(s, n - 1)

\* ---- width functions ----------------------------------------------------
defaultWidth(r) == IF r = "TAB" THEN 4 ELSE 1

RECURSIVE SumWidth(_)
SumWidth(s) == IF s = <<>> THEN 0 ELSE defaultWidth(Head(s)) + SumWidth(Tail(s))

\* the runes r with 'a' <= r <= 'z' or 'A' <= r <= 'Z'
Letters ==
    {"a", "b", "c", "d", "e", "f", "g", "h", "i", "j", "k", "l", "m",
     "n", "o", "p", "q", "r", "s", "t", "u", "v", "w", "x", "y", "z",
     "A", "B", "C", "D", "E", "F", "G", "H", "I", "J", "K", "L", "M",
     "N", "O", "P", "Q", "R", "S", "T", "U", "V", "W", "X", "Y", "Z"}

RECURSIVE visualWidthFrom(_, _)
visualWidthFrom(runes, inEscSeq) ==
    IF runes = <<>> THEN 0
    ELSE LET r == Head(runes) IN
         IF inEscSeq
         THEN visualWidthFrom(Tail(runes), ~(r \in Letters))
         ELSE IF r = "ESC"
              THEN visualWidthFrom(Tail(runes), TRUE)
              ELSE 1 + visualWidthFrom(Tail(runes), FALSE)

\* mutant: the scan starts as if inside an escape sequence
visualWidthInEsc(runes) == visualWidthFrom(runes, TRUE)

visualWidth(runes) == visualWidthFrom(runes, FALSE)

\* ---- provider callbacks (fixed pure functions, as in the tests) ---------
HintFn(line) == IF line = <<"a">> THEN <<"h">> ELSE <<>>

CompleteFn(line) ==
    IF line = <<>> THEN << <<"a">>, <<"a", " ">> >>
    ELSE IF line = <<"a">> THEN << <<"a", "a">> >>
    ELSE <<>>

HelpFn(line) == << << <<"a">>, <<"h">> >> >>

\* ---- History ------------------------------------------------------------
\* mutant: Add leaves the pointer where it was
HistAddKeepPos(h, l) ==
    LET base == IF Len(h.Lines) = 0 THEN << <<>> >> ELSE h.Lines
        set == [base EXCEPT ![Len(base)] = l]
        app == Append(set, <<>>)
    IN [Lines |-> app, Pos |-> h.Pos]

HistAdd(h, l) ==
    LET base == IF Len(h.Lines) = 0 THEN << <<>> >> ELSE h.Lines
        set == [base EXCEPT ![Len(base)] = l]
        app == Append(set, <<>>)
    IN [Lines |-> app, Pos |-> Len(app) - 1]

\* mutant: Next reports no error at the end of the history
HistNextNoErr(h) ==
    IF h.Pos >= Len(h.Lines) - 1 /\ Len(h.Lines) = 0
    THEN [h |-> h, err |-> TRUE]
    ELSE [h |-> [h EXCEPT !.Pos = Min(h.Pos + 1, Len(h.Lines) - 1)], err |-> FALSE]

HistNext(h) ==
    IF h.Pos >= Len(h.Lines) - 1
    THEN [h |-> h, err |-> TRUE]
    ELSE [h |-> [h EXCEPT !.Pos = h.Pos + 1], err |-> FALSE]

HistPrev(h) ==
    IF h.Pos <= 0
    THEN [h |-> h, err |-> TRUE]
    ELSE [h |-> [h EXCEPT !.Pos = h.Pos - 1], err |-> FALSE]

HistGet(h) == h.Lines[h.Pos + 1]

\* mutant: Save without the test of the pointer
HistSaveAlways(h, l) ==
    LET base == IF Len(h.Lines) = 0 THEN [h EXCEPT !.Lines = << <<>> >>] ELSE h
    IN [base EXCEPT !.Lines[Len(base.Lines)] = l]

HistSave(h, l) ==
    LET base == IF Len(h.Lines) = 0 THEN [h EXCEPT !.Lines = << <<>> >>] ELSE h
    IN IF base.Pos # Len(base.Lines) - 1
       THEN base
       ELSE [base EXCEPT !.Lines[Len(base.Lines)] = l]

\* ---- results of an operation: new Terminal, flushed blocks, error -------
Res(e, out, err) == [e |-> e, out |-> out, err |-> err, panic |-> FALSE]
Panic(e) == [e |-> e, out |-> <<>>, err |-> FALSE, panic |-> TRUE]

notZero(e) ==
    [e EXCEPT !.Rows = IF e.Rows = 0 THEN 24 ELSE e.Rows,
              !.Cols = IF e.Cols = 0 THEN 80 ELSE e.Cols]

\* mutant: the hint is asked for the text before the cursor
hintOfPrefix(e) == IF ~e.Hint THEN <<>> ELSE HintFn(SubSeq(e.Buffer, 1, e.Cur))

hint(e) == IF ~e.Hint THEN <<>> ELSE HintFn(e.Buffer)

beep(e, wok) == Res(e, IF wok THEN << <<BEL>> >> ELSE <<>>, ~wok)

\* refreshLine: pre is what earlier writes of the same command left in the
\* bufio.Writer (clear-screen, completion grid, help table); it is flushed
\* together with the render as one block.
refreshLine(e, wok, pre) ==
    LET hintStr == hint(e)
        pw == visualWidth(Prompt)
        cw == SumWidth(SubSeq(e.Buffer, 1, Min(e.Cur, Len(e.Buffer))))
        ocw == SumWidth(SubSeq(e.Buffer, 1, Min(e.OldCur, Len(e.Buffer))))
        bw == SumWidth(e.Buffer)
        hw == SumWidth(hintStr)
        epRows == (pw + bw + hw) \div e.Cols
        cpCols == (pw + cw) % e.Cols
        cpRows == (pw + cw) \div e.Cols
        ocpRows == (pw + ocw) \div e.Cols
        oldRows == e.MaxRows
        maxRows1 == Max(e.MaxRows, epRows)
        edge == e.Cur = Len(e.Buffer) /\ cpCols = 0
        cpRows2 == IF edge THEN cpRows + 1 ELSE cpRows
        epRows2 == IF edge THEN epRows + 1 ELSE epRows
        maxRows2 == IF edge THEN Max(maxRows1, epRows2) ELSE maxRows1
        down == IF oldRows - ocpRows > 0
                THEN <<Tok("CUD", oldRows - ocpRows)>> ELSE <<>>
        kill == Repeat(<<EL2, Tok("CUU", 1)>>, oldRows - 1)
        body == <<CR>> \o Text(Prompt) \o Text(e.Buffer) \o Text(hintStr) \o <<EL0>>
        nl == IF edge THEN <<LF, CR>> ELSE <<>>
        up == IF epRows2 - cpRows2 > 0
              THEN <<Tok("CUU", epRows2 - cpRows2)>> ELSE <<>>
        right == IF cpCols > 0 THEN <<Tok("CUF", cpCols)>> ELSE <<>>
        block == pre \o down \o kill \o body \o nl \o up \o <<CR>> \o right
    IN Res([e EXCEPT !.MaxRows = maxRows2, !.OldCur = e.Cur],
           IF wok THEN <<block>> ELSE <<>>, ~wok)

\* mutant: the reset forgets to clear the buffer
LineResetKeepBuffer(e, wok) ==
    refreshLine([notZero(e) EXCEPT !.OldCur = 0, !.Cur = 0, !.MaxRows = 0], wok, <<>>)

LineReset(e, wok) ==
    refreshLine([notZero(e) EXCEPT !.Buffer = <<>>, !.OldCur = 0, !.Cur = 0,
                                   !.MaxRows = 0], wok, <<>>)

RemoveAt(s, i) == SubSeq(s, 1, i - 1) \o SubSeq(s, i + 1, Len(s))

editBackspace(e, wok) ==
    IF e.Cur = 0 THEN beep(e, wok)
    ELSE refreshLine([e EXCEPT !.Cur = e.Cur - 1,
                               !.Buffer = RemoveAt(e.Buffer, e.Cur)], wok, <<>>)

editDelete(e, wok) ==
    IF e.Cur = Len(e.Buffer) THEN beep(e, wok)
    ELSE refreshLine([e EXCEPT !.Buffer = RemoveAt(e.Buffer, e.Cur + 1)], wok, <<>>)

\* mutant: the swap forgets to advance the cursor
editSwapNoAdvance(e, wok) ==
    LET p == IF e.Cur = Len(e.Buffer) THEN Len(e.Buffer) - 1 ELSE e.Cur
    IN IF p = 0 THEN beep(e, wok)
       ELSE IF p < 1 \/ p > Len(e.Buffer) - 1 THEN Panic(e)
       ELSE refreshLine([e EXCEPT !.Buffer = [e.Buffer EXCEPT ![p] = e.Buffer[p + 1],
                                                              ![p + 1] = e.Buffer[p]]],
                        wok, <<>>)

editSwap(e, wok) ==
    LET p == IF e.Cur = Len(e.Buffer) THEN Len(e.Buffer) - 1 ELSE e.Cur
    IN IF p = 0 THEN beep(e, wok)
       ELSE IF p < 1 \/ p > Len(e.Buffer) - 1 THEN Panic(e)
       ELSE refreshLine([e EXCEPT !.Buffer = [e.Buffer EXCEPT ![p] = e.Buffer[p + 1],
                                                              ![p + 1] = e.Buffer[p]],
                                  !.Cur = IF e.Cur < Len(e.Buffer) THEN e.Cur + 1 ELSE e.Cur],
                        wok, <<>>)

editMoveLeft(e, wok) ==
    IF e.Cur = 0 THEN beep(e, wok)
    ELSE refreshLine([e EXCEPT !.Cur = e.Cur - 1], wok, <<>>)

\* mutant: move-right without the check for the end of the buffer
editMoveRightNoCheck(e, wok) ==
    refreshLine([e EXCEPT !.Cur = e.Cur + 1], wok, <<>>)

editMoveRight(e, wok) ==
    IF e.Cur = Len(e.Buffer) THEN beep(e, wok)
    ELSE refreshLine([e EXCEPT !.Cur = e.Cur + 1], wok, <<>>)

\* mutant: history-prev without saving the live buffer
editHistoryPrevNoSave(e, wok) ==
    LET pr == HistPrev(e.History)
    IN IF pr.err THEN beep(e, wok)
       ELSE refreshLine([e EXCEPT !.History = pr.h,
                                  !.Buffer = HistGet(pr.h),
                                  !.Cur = Len(HistGet(pr.h))], wok, <<>>)

editHistoryPrev(e, wok) ==
    LET saved == HistSave(e.History, e.Buffer)
        pr == HistPrev(saved)
    IN IF pr.err THEN beep([e EXCEPT !.History = saved], wok)
       ELSE refreshLine([e EXCEPT !.History = pr.h,
                                  !.Buffer = HistGet(pr.h),
                                  !.Cur = Len(HistGet(pr.h))], wok, <<>>)

editHistoryNext(e, wok) ==
    LET nx == HistNext(e.History)
    IN IF nx.err THEN beep(e, wok)
       ELSE refreshLine([e EXCEPT !.History = nx.h,
                                  !.Buffer = HistGet(nx.h),
                                  !.Cur = Len(HistGet(nx.h))], wok, <<>>)

editKillForward(e, wok) ==
    refreshLine([e EXCEPT !.Buffer = SubSeq(e.Buffer, 1, e.Cur)], wok, <<>>)

\* mutant: move-home renders also when the cursor is already at 0
editMoveHomeNoCheck(e, wok) ==
    refreshLine([e EXCEPT !.Cur = 0], wok, <<>>)

editMoveHome(e, wok) ==
    IF e.Cur = 0 THEN beep(e, wok)
    ELSE refreshLine([e EXCEPT !.Cur = 0], wok, <<>>)

editMoveEnd(e, wok) ==
    IF e.Cur = Len(e.Buffer) THEN beep(e, wok)
    ELSE refreshLine([e EXCEPT !.Cur = Len(e.Buffer)], wok, <<>>)

\* the scan loop of editDeletePrevWord; i is the 0-based loop index
RECURSIVE prevWordScan(_, _, _)
prevWordScan(buf, i, w) ==
    IF i < 0 THEN 0
    ELSE IF buf[i + 1] # " " THEN prevWordScan(buf, i - 1, TRUE)
    ELSE IF ~w THEN prevWordScan(buf, i - 1, w)
    ELSE i + 1

\* mutant: the scan does not skip the spaces next to the cursor
editDeletePrevWordNoSkip(e, wok) ==
    LET p == prevWordScan(e.Buffer, e.Cur - 1, TRUE)
    IN refreshLine([e EXCEPT !.Buffer = SubSeq(e.Buffer, 1, p), !.Cur = p], wok, <<>>)

editDeletePrevWord(e, wok) ==
    LET p == prevWordScan(e.Buffer, e.Cur - 1, FALSE)
    IN refreshLine([e EXCEPT !.Buffer = SubSeq(e.Buffer, 1, p), !.Cur = p], wok, <<>>)

\* mutant: the insert forgets to advance the cursor
editInsertNoAdvance(e, r, wok) ==
    refreshLine([e EXCEPT !.Buffer = SubSeq(e.Buffer, 1, e.Cur) \o <<r>>
                                     \o SubSeq(e.Buffer, e.Cur + 1, Len(e.Buffer))],
                wok, <<>>)

editInsert(e, r, wok) ==
    refreshLine([e EXCEPT !.Buffer = SubSeq(e.Buffer, 1, e.Cur) \o <<r>>
                                     \o SubSeq(e.Buffer, e.Cur + 1, Len(e.Buffer)),
                          !.Cur = e.Cur + 1], wok, <<>>)

\* ---- text/tabwriter as used by completeLine and printHelp ----------------
\* lines: sequence of lines, each a sequence of tab-terminated cells (token
\* sequences).  A column is as wide as its widest cell plus the padding.
RECURSIVE MaxOver(_, _)
MaxOver(f, n) == IF n = 0 THEN 0 ELSE Max(f[n], MaxOver(f, n - 1))

colWidth(lines, j, pad) ==
    MaxOver([i \in 1..Len(lines) |-> IF Len(lines[i]) >= j THEN Len(lines[i][j]) ELSE 0],
            Len(lines)) + pad

RECURSIVE tabLine(_, _, _, _)
tabLine(lines, i, j, pad) ==
    IF j > Len(lines[i]) THEN <<>>
    ELSE lines[i][j] \o Spaces(colWidth(lines, j, pad) - Len(lines[i][j]))
         \o tabLine(lines, i, j + 1, pad)

RECURSIVE tabLines(_, _, _)
tabLines(lines, i, pad) ==
    IF i > Len(lines) THEN <<>>
    ELSE tabLine(lines, i, 1, pad) \o <<LF>> \o tabLines(lines, i + 1, pad)

tabwriterOut(lines, pad) == <<LF>> \o tabLines(lines, 1, pad)

Chunk3(opts) ==
    [i \in 1..((Len(opts) + 2) \div 3) |-> SubSeq(opts, 3 * (i - 1) + 1, Min(3 * i, Len(opts)))]

completeGrid(opts) ==
    LET ch == Chunk3(opts)
        lines == [i \in 1..Len(ch) |->
                    [j \in 1..Len(ch[i]) |->
                        IF j = 1 THEN <<CR>> \o Spaces(4) \o Text(ch[i][j])
                        ELSE Text(ch[i][j])]]
    IN tabwriterOut(lines, 4)

\* mutant: with several candidates the first one is taken
completeLineFirst(e, wok) ==
    IF ~e.Complete THEN editInsert(e, "TAB", wok)
    ELSE LET opts == CompleteFn(e.Buffer) IN
         IF Len(opts) = 0 THEN beep(e, wok)
         ELSE refreshLine([e EXCEPT !.Buffer = opts[1], !.Cur = Len(opts[1])], wok, <<>>)

completeLine(e, wok) ==
    IF ~e.Complete THEN editInsert(e, "TAB", wok)
    ELSE LET opts == CompleteFn(e.Buffer) IN
         IF Len(opts) = 0 THEN beep(e, wok)
         ELSE IF Len(opts) = 1
              THEN refreshLine([e EXCEPT !.Buffer = opts[1], !.Cur = Len(opts[1])], wok, <<>>)
              ELSE refreshLine(e, wok, completeGrid(opts))

helpTable(dict) ==
    tabwriterOut([i \in 1..Len(dict) |->
                    << <<CR>> \o Spaces(2) \o Text(dict[i][1]), Text(dict[i][2]) >>], 3)

printHelp(e, wok) ==
    IF ~e.Help THEN editInsert(e, "?", wok)
    ELSE refreshLine(e, wok, helpTable(HelpFn(e.Buffer)))

clearScreen == <<Tok("HOME", 0), Tok("ED2", 0)>>

\* ---- state ---------------------------------------------------------------
VARIABLES
    e,       \* the Terminal: Buffer, Cur, OldCur, Cols, Rows, MaxRows, History, providers, Raw (set or nil)
    status,  \* "idle" | "edit" (inside the LineEditor loop) | "returned" | "panic"
    result,  \* the string the last LineEditor call returned (empty while it runs)
    err,     \* the error the last LineEditor call returned ("nil" while it runs)
    key,     \* the key command decoded by the last loop iteration
    out,     \* the blocks flushed to the sink by the last call or loop iteration
    outErr,  \* the sticky error of the bufio.Writer
    ioerr,   \* the I/O failure met by the last call or loop iteration
    typed,   \* the runes typed in this session while only plain runes were typed
    pend,    \* what is written to the bufio.Writer and not yet flushed
    inp,     \* the bytes the reader still holds (for Adjust, and for LineEditor when it reads a given stream)
    call,    \* the call of Adjust, WriteOut or a History method: position and results
    conc     \* WriteOut running beside a key command: each thread's position and locals

vars == <<e, status, result, err, key, out, outErr, ioerr, typed, pend, inp, call, conc>>

\* left alone by LineEditor: it flushes all it writes, so pend is empty there

NoCall == [op |-> "none", pc |-> "done", arg |-> <<>>, n |-> 0, err |-> "nil"]

\* a thread outside any call: its position (pc), the key or call it runs
\* (cmd), the writeString calls it makes before its next access to the
\* Terminal (todo), the locals of refreshLine (hintStr, the slice the range
\* loop runs over and its index, cw, ocw, bw, ep.rows, cp, ocp.rows, oldRows),
\* the Cur read by the edge test and the one read for OldCur, whether a read
\* of Cur exceeded the length of the Buffer the render read (bad), and the
\* largest value the thread assigned to MaxRows (wrote)
IdleThread ==
    [pc |-> "idle", cmd |-> "none", todo |-> <<>>, hintStr |-> <<>>, rng |-> <<>>, i |-> 0,
     cw |-> 0, ocw |-> 0, bw |-> 0, epRows |-> 0, cpCols |-> 0, cpRows |-> 0, ocpRows |-> 0,
     oldRows |-> 0, edgeCur |-> 0, cur |-> 0, bad |-> FALSE, wrote |-> 0]

\* no thread is inside a command or a WriteOut
NoConc == [E |-> IdleThread, W |-> IdleThread]

Providers == {[Complete |-> TRUE, Help |-> TRUE, Hint |-> TRUE]}

NewTerminal(prov) ==
    [Buffer |-> <<>>, Cur |-> 0, OldCur |-> 0, Cols |-> 80, Rows |-> 24, MaxRows |-> 0,
     History |-> [Lines |-> <<>>, Pos |-> 0],
     Complete |-> prov.Complete, Help |-> prov.Help, Hint |-> prov.Hint,
     Raw |-> TRUE]

\* &Terminal{Inp: ..., Out: ..., Prompt: ...} as the tests build it: the size
\* fields and Raw are left out (Raw is a nil interface)
Literal(prov) == [NewTerminal(prov) EXCEPT !.Cols = 0, !.Rows = 0, !.Raw = FALSE]

\* the Terminal the session runs on: built by the literal (cols = 0), or by
\* NewTerminal with the public field Cols then set by the application
Sized(cols, prov) ==
    IF cols = 0 THEN Literal(prov) ELSE [NewTerminal(prov) EXCEPT !.Cols = cols]

Init ==
    /\ \E cols \in ColsInit, prov \in Providers : e = Sized(cols, prov)
    /\ status = "idle"
    /\ result = <<>>
    /\ err = "nil"
    /\ key = "none"
    /\ out = <<>>
    /\ outErr = FALSE
    /\ ioerr = "none"
    /\ typed = [ok |-> FALSE, s |-> <<>>]
    /\ pend = <<>>
    /\ inp = <<>>
    /\ call = NoCall
    /\ conc = NoConc

WOK == IF outErr THEN {FALSE} ELSE BOOLEAN

Dirty == [ok |-> FALSE, s |-> <<>>]

\* return string(e.Buffer), err
Return(e1, er) ==
    /\ status' = "returned"
    /\ result' = e1.Buffer
    /\ err' = er

\* the blocks o as the sink gets them: the first Flush also sends what the
\* bufio.Writer still held (pnd)
Flushed(o, pnd) == IF o = <<>> THEN <<>> ELSE <<pnd \o Head(o)>> \o Tail(o)

\* what the bufio.Writer holds after a command that flushed the blocks o
Held(o, pnd) == IF o = <<>> THEN pnd ELSE <<>>

\* the tail of the loop body: if err != nil { return string(e.Buffer), err }
Dispatch(k, res) ==
    /\ key' = k
    /\ e' = res.e
    /\ out' = Flushed(res.out, pend)
    /\ pend' = Held(res.out, pend)
    /\ outErr' = (outErr \/ res.err)
    /\ ioerr' = IF res.err THEN "write" ELSE "none"
    /\ IF res.panic
       THEN status' = "panic" /\ UNCHANGED <<result, err>>
       ELSE IF res.err THEN Return(res.e, "write")
            ELSE UNCHANGED <<status, result, err>>
    /\ UNCHANGED <<inp, call, conc>>

\* inside "case esc" the result is assigned to an err declared by the := of
\* the enclosing case clause, so the loop's own err stays nil
DispatchEsc(k, res) ==
    /\ key' = k
    /\ e' = res.e
    /\ out' = Flushed(res.out, pend)
    /\ pend' = Held(res.out, pend)
    /\ outErr' = (outErr \/ res.err)
    /\ ioerr' = IF res.err THEN "write" ELSE "none"
    /\ UNCHANGED <<status, result, err>>
    /\ UNCHANGED <<inp, call, conc>>

\* ---- LineEditor -----------------------------------------------------------
\* LineEditor up to the loop.  The Flush of the first render also sends what
\* an earlier Adjust left in the bufio.Writer.
Start ==
    /\ status \in {"idle", "returned"}
    /\ call.pc = "done"
    /\ \E wok \in WOK :
         LET res == LineReset(e, wok) IN
         /\ key' = "start"
         /\ e' = res.e
         /\ out' = Flushed(res.out, pend)
         /\ pend' = Held(res.out, pend)
         /\ outErr' = (outErr \/ res.err)
         /\ ioerr' = IF res.err THEN "write" ELSE "none"
         /\ IF res.err THEN Return(res.e, "write")
            ELSE status' = "edit" /\ result' = <<>> /\ err' = "nil"
    /\ typed' = [ok |-> TRUE, s |-> <<>>]
    /\ UNCHANGED <<inp, call, conc>>

ReadErr ==
    /\ status = "edit"
    /\ key' = "readerr"
    /\ Return(e, "read")
    /\ out' = <<>>
    /\ ioerr' = "read"
    /\ typed' = Dirty
    /\ UNCHANGED <<e, outErr, pend, inp, call, conc>>

KeyEnter ==
    /\ status = "edit"
    /\ key' = "enter"
    /\ Return(e, "nil")
    /\ out' = <<>>
    /\ ioerr' = "none"
    /\ UNCHANGED <<e, outErr, typed, pend, inp, call, conc>>

\* mutant: ctrl-C handled like enter
KeyCtrlCNoError ==
    /\ status = "edit"
    /\ key' = "ctrlC"
    /\ Return(e, "nil")
    /\ out' = <<>>
    /\ ioerr' = "none"
    /\ typed' = Dirty
    /\ UNCHANGED <<e, outErr, pend, inp, call, conc>>

KeyCtrlC ==
    /\ status = "edit"
    /\ key' = "ctrlC"
    /\ Return(e, "try again")
    /\ out' = <<>>
    /\ ioerr' = "none"
    /\ typed' = Dirty
    /\ UNCHANGED <<e, outErr, pend, inp, call, conc>>

\* mutant: ctrl-D without the test for the empty buffer
KeyCtrlDNoEOF ==
    /\ status = "edit"
    /\ typed' = Dirty
    /\ \E wok \in WOK : Dispatch("ctrlD", editDelete(e, wok))

KeyCtrlD ==
    /\ status = "edit"
    /\ typed' = Dirty
    /\ IF Len(e.Buffer) = 0
       THEN /\ key' = "ctrlD"
            /\ Return(e, "EOF")
            /\ out' = <<>>
            /\ ioerr' = "none"
            /\ UNCHANGED <<e, outErr, pend, inp, call, conc>>
       ELSE \E wok \in WOK : Dispatch("ctrlD", editDelete(e, wok))

KeyTab ==
    /\ status = "edit"
    /\ e.Complete \/ Len(e.Buffer) < MaxLen
    /\ typed' = Dirty
    /\ \E wok \in WOK : Dispatch("tab", completeLine(e, wok))

KeyHelp ==
    /\ status = "edit"
    /\ e.Help \/ Len(e.Buffer) < MaxLen
    /\ typed' = Dirty
    /\ \E wok \in WOK : Dispatch("?", printHelp(e, wok))

KeyBackspace ==
    /\ status = "edit"
    /\ typed' = Dirty
    /\ \E k \in {"backspace", "ctrlH"}, wok \in WOK : Dispatch(k, editBackspace(e, wok))

\* clearScreen only buffers its 7 bytes, so it fails just when the writer
\* already holds an error, and then refreshLine is not called
\* mutant: ctrl-L also moves the cursor home
KeyCtrlLHome ==
    /\ status = "edit"
    /\ typed' = Dirty
    /\ IF outErr
       THEN /\ key' = "ctrlL"
            /\ Return(e, "write")
            /\ out' = <<>>
            /\ ioerr' = "write"
            /\ UNCHANGED <<e, outErr, pend, inp, call, conc>>
       ELSE \E wok \in BOOLEAN :
              Dispatch("ctrlL", refreshLine([e EXCEPT !.Cur = 0], wok, clearScreen))

KeyCtrlL ==
    /\ status = "edit"
    /\ typed' = Dirty
    /\ IF outErr
       THEN /\ key' = "ctrlL"
            /\ Return(e, "write")
            /\ out' = <<>>
            /\ ioerr' = "write"
            /\ UNCHANGED <<e, outErr, pend, inp, call, conc>>
       ELSE \E wok \in BOOLEAN : Dispatch("ctrlL", refreshLine(e, wok, clearScreen))

KeyCtrlW ==
    /\ status = "edit"
    /\ typed' = Dirty
    /\ \E wok \in WOK : Dispatch("ctrlW", editDeletePrevWord(e, wok))

KeyCtrlB ==
    /\ status = "edit"
    /\ typed' = Dirty
    /\ \E wok \in WOK : Dispatch("ctrlB", editMoveLeft(e, wok))

KeyCtrlF ==
    /\ status = "edit"
    /\ typed' = Dirty
    /\ \E wok \in WOK : Dispatch("ctrlF", editMoveRight(e, wok))

KeyCtrlP ==
    /\ status = "edit"
    /\ typed' = Dirty
    /\ \E wok \in WOK : Dispatch("ctrlP", editHistoryPrev(e, wok))

KeyCtrlN ==
    /\ status = "edit"
    /\ typed' = Dirty
    /\ \E wok \in WOK : Dispatch("ctrlN", editHistoryNext(e, wok))

KeyCtrlU ==
    /\ status = "edit"
    /\ typed' = Dirty
    /\ \E wok \in WOK : Dispatch("ctrlU", LineReset(e, wok))

KeyCtrlK ==
    /\ status = "edit"
    /\ typed' = Dirty
    /\ \E wok \in WOK : Dispatch("ctrlK", editKillForward(e, wok))

KeyCtrlA ==
    /\ status = "edit"
    /\ typed' = Dirty
    /\ \E wok \in WOK : Dispatch("ctrlA", editMoveHome(e, wok))

KeyCtrlE ==
    /\ status = "edit"
    /\ typed' = Dirty
    /\ \E wok \in WOK : Dispatch("ctrlE", editMoveEnd(e, wok))

KeyCtrlT ==
    /\ status = "edit"
    /\ typed' = Dirty
    /\ \E wok \in WOK : Dispatch("ctrlT", editSwap(e, wok))

KeyInsert ==
    /\ status = "edit"
    /\ Len(e.Buffer) < MaxLen
    /\ \E r \in PlainRunes, wok \in WOK :
         /\ Dispatch("insert", editInsert(e, r, wok))
         /\ typed' = IF typed.ok THEN [typed EXCEPT !.s = Append(typed.s, r)] ELSE typed

\* ---- case esc ------------------------------------------------------------
\* runes that may follow where a sequence is not recognized
OtherRunes == {"x", "enter", "ctrlC", "ctrlD"}

\* a sequence that is read and dropped
EscDiscard(k) ==
    /\ key' = k
    /\ out' = <<>>
    /\ ioerr' = "none"
    /\ UNCHANGED <<e, status, result, err, outErr, pend, inp, call, conc>>

\* the read of r1, r2, r3 or r4 fails
KeyEscReadErr ==
    /\ status = "edit"
    /\ typed' = Dirty
    /\ \E k \in {"esc!", "esc[!", "esc[3!", "escO!"} : key' = k
    /\ Return(e, "read")
    /\ out' = <<>>
    /\ ioerr' = "read"
    /\ UNCHANGED <<e, outErr, pend, inp, call, conc>>

KeyEscOther ==
    /\ status = "edit"
    /\ typed' = Dirty
    /\ \E x \in OtherRunes : EscDiscard("esc x")

\* mutant: the letters C and D exchanged
CsiOpSwapped(c, e1, wok) ==
    CASE c = "A" -> editHistoryPrev(e1, wok)
      [] c = "B" -> editHistoryNext(e1, wok)
      [] c = "C" -> editMoveLeft(e1, wok)
      [] c = "D" -> editMoveRight(e1, wok)
      [] c = "H" -> editMoveHome(e1, wok)
      [] c = "F" -> editMoveEnd(e1, wok)

CsiOp(c, e1, wok) ==
    CASE c = "A" -> editHistoryPrev(e1, wok)
      [] c = "B" -> editHistoryNext(e1, wok)
      [] c = "C" -> editMoveRight(e1, wok)
      [] c = "D" -> editMoveLeft(e1, wok)
      [] c = "H" -> editMoveHome(e1, wok)
      [] c = "F" -> editMoveEnd(e1, wok)

CsiKey(c) ==
    CASE c = "A" -> "esc[A"
      [] c = "B" -> "esc[B"
      [] c = "C" -> "esc[C"
      [] c = "D" -> "esc[D"
      [] c = "H" -> "esc[H"
      [] c = "F" -> "esc[F"

KeyEscCsiLetter ==
    /\ status = "edit"
    /\ typed' = Dirty
    /\ \E c \in {"A", "B", "C", "D", "H", "F"}, wok \in WOK :
         DispatchEsc(CsiKey(c), CsiOp(c, e, wok))

KeyEscCsi3Tilde ==
    /\ status = "edit"
    /\ typed' = Dirty
    /\ \E wok \in WOK : DispatchEsc("esc[3~", editDelete(e, wok))

KeyEscCsi3Other ==
    /\ status = "edit"
    /\ typed' = Dirty
    /\ \E x \in OtherRunes : EscDiscard("esc[3x")

\* ESC [ digit: one more rune is read; the error of that read is dropped
KeyEscCsiDigit ==
    /\ status = "edit"
    /\ typed' = Dirty
    /\ \E rok \in BOOLEAN :
         /\ key' = "esc[dx"
         /\ out' = <<>>
         /\ ioerr' = IF rok THEN "none" ELSE "read"
         /\ UNCHANGED <<e, status, result, err, outErr, pend, inp, call, conc>>

KeyEscCsiOther ==
    /\ status = "edit"
    /\ typed' = Dirty
    /\ \E x \in OtherRunes : EscDiscard("esc[x")

KeyEscSS3 ==
    /\ status = "edit"
    /\ typed' = Dirty
    /\ \E wok \in WOK :
         \/ DispatchEsc("escOH", editMoveHome(e, wok))
         \/ DispatchEsc("escOF", editMoveEnd(e, wok))

KeyEscSS3Other ==
    /\ status = "edit"
    /\ typed' = Dirty
    /\ \E x \in OtherRunes : EscDiscard("escOx")

\* ---- the caller, between two LineEditor calls ------------------------------
HistoryAdd ==
    /\ status = "returned"
    /\ err = "nil"
    /\ Len(result) <= MaxAddLen
    /\ Len(e.History.Lines) <= MaxHist
    /\ e' = [e EXCEPT !.History = HistAdd(e.History, result)]
    /\ key' = "add"
    /\ out' = <<>>
    /\ ioerr' = "none"
    /\ UNCHANGED <<status, result, err, outErr, typed, pend, inp, call, conc>>

Next ==
    \/ Start
    \/ ReadErr
    \/ KeyEnter
    \/ KeyCtrlC
    \/ KeyCtrlD
    \/ KeyTab
    \/ KeyHelp
    \/ KeyBackspace
    \/ KeyCtrlL
    \/ KeyCtrlW
    \/ KeyCtrlB
    \/ KeyCtrlF
    \/ KeyCtrlP
    \/ KeyCtrlN
    \/ KeyCtrlU
    \/ KeyCtrlK
    \/ KeyCtrlA
    \/ KeyCtrlE
    \/ KeyCtrlT
    \/ KeyInsert
    \/ KeyEscReadErr
    \/ KeyEscOther
    \/ KeyEscCsiLetter
    \/ KeyEscCsi3Tilde
    \/ KeyEscCsi3Other
    \/ KeyEscCsiDigit
    \/ KeyEscCsiOther
    \/ KeyEscSS3
    \/ KeyEscSS3Other
    \/ HistoryAdd

Spec == Init /\ [][Next]_vars

\* ---- properties ----------------------------------------------------------
BellOnly == << <<BEL>> >>

\* C1: in the state after every key command (insert, backspace, delete,
\* transpose, the moves, kill-to-end, delete-previous-word, history-prev/next,
\* completion, full reset) 0 <= Cur <= len(Buffer).
C1_CursorInBounds == 0 <= e.Cur /\ e.Cur <= Len(e.Buffer)

C1_Witness ==
    /\ status = "edit"
    /\ key \in {"backspace", "ctrlW", "ctrlK", "ctrlP", "tab"}
    /\ e.Cur = Len(e.Buffer)
    /\ e.Cur > 0

\* C2: whenever a read or a write failed during a call or a loop iteration,
\* LineEditor has returned with that error (and so reads no further key).
C2_IOErrorAborts == ioerr # "none" => (status = "returned" /\ err = ioerr)

\* C3: when only plain runes were typed and then enter, LineEditor returns
\* exactly the typed sequence with a nil error.
C3_PlainRoundTrip ==
    (status = "returned" /\ key = "enter" /\ typed.ok) => (result = typed.s /\ err = "nil")

C3_Witness ==
    /\ status = "returned"
    /\ key = "enter"
    /\ typed.ok
    /\ Len(typed.s) >= 2
    /\ typed.s[1] # typed.s[2]

\* the render of the empty line, as the tests expect it: "\r> \x1b[0K\r\x1b[2C"
EmptyLineBlock == <<CR, Ch(">"), Ch(" "), EL0, CR, Tok("CUF", 2)>>

\* C4: a full reset (the start of a LineEditor call, ctrl-U) leaves Buffer
\* empty and Cur, OldCur and MaxRows 0, emits exactly one render of the empty
\* line and leaves the History unchanged.
C4_ResetClears ==
    [][key' \in {"start", "ctrlU"} =>
          /\ e'.Buffer = <<>>
          /\ e'.Cur = 0
          /\ e'.OldCur = 0
          /\ e'.MaxRows = 0
          /\ e'.History = e.History
          /\ (ioerr' = "none" => out' = <<EmptyLineBlock>>)]_vars

C4_Witness ==
    /\ key = "start"
    /\ status = "edit"
    /\ Len(e.History.Lines) = 2
    /\ e.History.Lines[1] # <<>>
    /\ e.Buffer = <<>>
    /\ out = <<EmptyLineBlock>>

\* C5: ctrl-C returns the buffer as it is with a non-nil error, changes
\* neither Buffer, Cur nor History and emits nothing.
C5_CtrlCReturns ==
    [][key' = "ctrlC" =>
          /\ status' = "returned"
          /\ result' = e.Buffer
          /\ err' # "nil"
          /\ e' = e
          /\ out' = <<>>]_vars

C5_Witness ==
    /\ key = "ctrlC"
    /\ status = "returned"
    /\ result # <<>>
    /\ result = e.Buffer
    /\ e.Cur < Len(e.Buffer)

\* s without its i-th rune (1-based)
Without(s, i) == [j \in 1..(Len(s) - 1) |-> IF j < i THEN s[j] ELSE s[j + 1]]

\* C6: ctrl-D returns "" and io.EOF iff the buffer is empty; on a non-empty
\* buffer it removes Buffer[Cur] keeping Cur, or rings the bell at the end of
\* the buffer, and the session continues.
C6_CtrlDRule ==
    [][key' = "ctrlD" =>
          IF e.Buffer = <<>>
          THEN /\ status' = "returned"
               /\ result' = <<>>
               /\ err' = "EOF"
               /\ e' = e
          ELSE /\ err' # "EOF"
               /\ e'.Cur = e.Cur
               /\ IF e.Cur = Len(e.Buffer)
                  THEN e'.Buffer = e.Buffer /\ (ioerr' = "none" => out' = BellOnly)
                  ELSE e'.Buffer = Without(e.Buffer, e.Cur + 1)
               /\ (ioerr' = "none" => status' = "edit")]_vars

C6_Witness ==
    /\ key = "ctrlD"
    /\ status = "edit"
    /\ Len(e.Buffer) = 1
    /\ e.Cur = 0
    /\ out # BellOnly
    /\ out # <<>>

\* the key commands that meet a buffer edge in the Terminal t
AtLeftEdge(k, t) == k \in {"ctrlB", "esc[D", "ctrlA", "esc[H", "escOH", "backspace", "ctrlH"} /\ t.Cur = 0
AtRightEdge(k, t) ==
    /\ t.Cur = Len(t.Buffer)
    /\ \/ k \in {"ctrlF", "esc[C", "ctrlE", "esc[F", "escOF", "esc[3~"}
       \/ k = "ctrlD" /\ t.Buffer # <<>>

\* C7: a motion or deletion past a buffer edge emits one bell and nothing
\* else, leaves the whole edit state and the History unchanged and the session
\* continues with no error.
C7_EdgeRingsBell ==
    [][(AtLeftEdge(key', e) \/ AtRightEdge(key', e)) =>
          /\ e' = e
          /\ (ioerr' = "none" => (out' = BellOnly /\ status' = "edit" /\ err' = "nil"))]_vars

C7_Witness ==
    /\ key \in {"ctrlA", "ctrlB", "backspace"}
    /\ status = "edit"
    /\ out = BellOnly
    /\ e.Cur = 0
    /\ e.Buffer # <<>>

\* ---- ctrl-T on longer buffers ------------------------------------------------
MaxSwapLen == 4

SwapRunes == {"a", "b", "c"}

\* the sequences over S of length at most n
RECURSIVE SeqsUpTo(_, _)
SeqsUpTo(S, n) ==
    IF n = 0 THEN {<<>>}
    ELSE LET shorter == SeqsUpTo(S, n - 1)
         IN shorter \cup {Append(q, x) : q \in shorter, x \in S}

RECURSIVE TypeSeq(_, _)
\* the Terminal after the runes of s were typed
TypeSeq(e1, s) == IF s = <<>> THEN e1 ELSE TypeSeq(editInsert(e1, Head(s), TRUE).e, Tail(s))

RECURSIVE MoveLeft(_, _)
\* the Terminal after k times ctrl-B
MoveLeft(e1, k) == IF k = 0 THEN e1 ELSE MoveLeft(editMoveLeft(e1, TRUE).e, k - 1)

\* a session in which up to MaxSwapLen runes were typed and the cursor was
\* moved left some way
InitSwap ==
    /\ \E cols \in ColsInit, prov \in Providers, s \in SeqsUpTo(SwapRunes, MaxSwapLen) :
         \E k \in 0..Len(s) :
            e = MoveLeft(TypeSeq(LineReset(Sized(cols, prov), TRUE).e, s), k)
    /\ status = "edit"
    /\ result = <<>>
    /\ err = "nil"
    /\ key = "none"
    /\ out = <<>>
    /\ outErr = FALSE
    /\ ioerr = "none"
    /\ typed = Dirty
    /\ pend = <<>>
    /\ inp = <<>>
    /\ call = NoCall
    /\ conc = NoConc

NextSwap ==
    \/ KeyCtrlT
    \/ KeyCtrlB
    \/ KeyCtrlF

SpecSwap == InitSwap /\ [][NextSwap]_vars

\* C8: for len(Buffer) = N >= 2 and Cur >= 1, ctrl-T swaps the runes at
\* 0-based p-1 and p (p = Cur if Cur < N, else N-1), keeps every other rune and
\* sets Cur to min(Cur+1, N).
C8_SwapEffect ==
    [][(key' = "ctrlT" /\ Len(e.Buffer) >= 2 /\ e.Cur >= 1) =>
          LET N == Len(e.Buffer)
              p == IF e.Cur < N THEN e.Cur ELSE N - 1
          IN /\ e'.Buffer = [i \in 1..N |-> IF i = p THEN e.Buffer[p + 1]
                                            ELSE IF i = p + 1 THEN e.Buffer[p]
                                            ELSE e.Buffer[i]]
             /\ e'.Cur = Min(e.Cur + 1, N)]_vars

\* ctrl-T was typed with the cursor on the third of four runes: the second and
\* third are swapped, the first and last stay, the cursor is on the fourth
C8_Witness ==
    /\ key = "ctrlT"
    /\ status = "edit"
    /\ out # BellOnly
    /\ out # <<>>
    /\ e.Buffer = <<"a", "c", "b", "c">>
    /\ e.Cur = 3

\* C9: ctrl-T never faults: in every edit state it swaps or rings the bell and
\* the session continues.
C9_SwapTotal == key = "ctrlT" => status # "panic"

\* the index delete-previous-word cuts at: the last space left of the last
\* non-space rune left of the cursor (0 when there is none)
MaxOf(S) == CHOOSE x \in S : \A y \in S : y <= x
WordCut(buf, cur) ==
    LET nonsp == {i \in 1..cur : buf[i] # " "} IN
    IF nonsp = {} THEN 0
    ELSE LET sp == {i \in 1..MaxOf(nonsp) : buf[i] = " "} IN
         IF sp = {} THEN 0 ELSE MaxOf(sp)

\* C10: ctrl-W never rings the bell; it cuts the buffer at the index found by
\* scanning left from Cur over spaces and then over non-space runes, and puts
\* Cur there, so Cur = len(Buffer) afterwards.
C10_WordDelete ==
    [][key' = "ctrlW" =>
          LET p == WordCut(e.Buffer, e.Cur) IN
          /\ e'.Buffer = SubSeq(e.Buffer, 1, p)
          /\ e'.Cur = p
          /\ e'.Cur = Len(e'.Buffer)
          /\ out' # BellOnly]_vars

C10_Witness ==
    /\ key = "ctrlW"
    /\ status = "edit"
    /\ e.Buffer = <<" ">>
    /\ e.Cur = 1
    /\ out # <<>>

\* ---- the History methods called directly ----------------------------------
HistLinesIn == {<<>>, <<"a">>, <<" ">>}

ApiFrame == UNCHANGED <<status, result, err, key, out, outErr, ioerr, typed, pend, inp, conc>>

Called(op, arg, er) == [op |-> op, pc |-> "done", arg |-> arg, n |-> 0, err |-> er]

HAdd ==
    /\ status = "idle"
    /\ Len(e.History.Lines) <= MaxHist + 1
    /\ \E l \in HistLinesIn :
         /\ e' = [e EXCEPT !.History = HistAdd(e.History, l)]
         /\ call' = Called("Add", l, "nil")
    /\ ApiFrame

HSave ==
    /\ status = "idle"
    /\ \E l \in HistLinesIn :
         /\ e' = [e EXCEPT !.History = HistSave(e.History, l)]
         /\ call' = Called("Save", l, "nil")
    /\ ApiFrame

HPrev ==
    /\ status = "idle"
    /\ LET r == HistPrev(e.History) IN
         /\ e' = [e EXCEPT !.History = r.h]
         /\ call' = Called("Prev", <<>>, IF r.err THEN "beginning of history" ELSE "nil")
    /\ ApiFrame

HNext ==
    /\ status = "idle"
    /\ LET r == HistNext(e.History) IN
         /\ e' = [e EXCEPT !.History = r.h]
         /\ call' = Called("Next", <<>>, IF r.err THEN "end of history" ELSE "nil")
    /\ ApiFrame

\* Get indexes Lines without a check: on the empty history it faults
HGet ==
    /\ status = "idle"
    /\ IF e.History.Pos + 1 \in DOMAIN e.History.Lines
       THEN /\ call' = Called("Get", HistGet(e.History), "nil")
            /\ UNCHANGED status
       ELSE /\ call' = Called("Get", <<>>, "nil")
            /\ status' = "panic"
    /\ UNCHANGED <<e, result, err, key, out, outErr, ioerr, typed, pend, inp, conc>>

NextHist ==
    \/ HAdd
    \/ HSave
    \/ HPrev
    \/ HNext
    \/ HGet

SpecHist == Init /\ [][NextHist]_vars

\* C11: after Add(l) the former scratch slot (or a new first entry) holds l, a
\* new empty entry is last, Pos is the index of that entry and every earlier
\* entry is unchanged.
C11_AddFreezesScratch ==
    [][call'.op = "Add" =>
          LET old == e.History.Lines
              new == e'.History.Lines
              n == Max(Len(old), 1)
          IN /\ Len(new) = n + 1
             /\ new[n] = call'.arg
             /\ new[n + 1] = <<>>
             /\ e'.History.Pos = n
             /\ \A i \in 1..(n - 1) : new[i] = old[i]]_vars

C11_Witness ==
    /\ call.op = "Add"
    /\ Len(e.History.Lines) = 3
    /\ e.History.Lines[1] # <<>>
    /\ e.History.Lines[2] # <<>>
    /\ e.History.Lines[2] # e.History.Lines[1]
    /\ e.History.Lines[2] = call.arg
    /\ e.History.Pos = 2

PrevKeys == {"ctrlP", "esc[A"}
NextKeys == {"ctrlN", "esc[B"}

\* C12: Save (called by history-prev) writes the scratch entry iff Pos is the
\* index of the last entry, and no key command of LineEditor modifies an entry
\* below the last one.
C12_SaveOnlyScratch ==
    [][key' # "add" =>
          LET old == e.History.Lines
              new == e'.History.Lines
          IN /\ \A i \in 1..(Len(old) - 1) : i <= Len(new) /\ new[i] = old[i]
             /\ IF key' \in PrevKeys
                THEN IF old = <<>> \/ e.History.Pos = Len(old) - 1
                     THEN Len(new) = Max(Len(old), 1) /\ new[Len(new)] = e.Buffer
                     ELSE new = old
                ELSE new = old]_vars

C12_Witness ==
    /\ key \in PrevKeys
    /\ status = "edit"
    /\ Len(e.History.Lines) = 2
    /\ e.History.Pos = 0
    /\ e.History.Lines[2] # <<>>
    /\ e.History.Lines[1] # <<>>
    /\ e.History.Lines[1] # e.History.Lines[2]
    /\ e.Buffer # e.History.Lines[1]

\* C13: Prev/Next move Pos by one inside [0, len-1] and otherwise fail with
\* Pos unchanged; a failed history-prev/next rings the bell, keeps Buffer and
\* Cur and the session goes on; Get is never reached on an empty history.
C13_PosInRange ==
    e.History.Lines # <<>> => (0 <= e.History.Pos /\ e.History.Pos <= Len(e.History.Lines) - 1)

C13_HistoryMoves ==
    [][/\ C13_PosInRange'
       /\ (key' \in PrevKeys \/ key' \in NextKeys) =>
            LET pos == e.History.Pos
                can == IF key' \in PrevKeys THEN pos > 0
                       ELSE pos < Len(e.History.Lines) - 1
            IN IF can
               THEN /\ e'.History.Pos = (IF key' \in PrevKeys THEN pos - 1 ELSE pos + 1)
                    /\ e'.Buffer = e'.History.Lines[e'.History.Pos + 1]
                    /\ e'.Cur = Len(e'.Buffer)
               ELSE /\ e'.History.Pos = pos
                    /\ e'.Buffer = e.Buffer
                    /\ e'.Cur = e.Cur
                    /\ (ioerr' = "none" =>
                          (out' = BellOnly /\ status' = "edit" /\ err' = "nil"))]_vars

C13_Witness ==
    /\ key \in NextKeys
    /\ status = "edit"
    /\ out = BellOnly
    /\ Len(e.History.Lines) = 2
    /\ e.History.Pos = 1
    /\ e.Buffer # <<>>
    /\ e.Buffer # e.History.Lines[2]

\* C14: from the scratch slot with a committed entry, history-prev stores the
\* live buffer in the scratch slot and loads the entry before it with Cur at
\* its end; a history-next right after loads that stored text again, with Cur
\* at its end and Pos back at the scratch slot.
C14_PrevNextRoundTrip ==
    [][LET old == e.History.Lines
           last == Len(old)
       IN /\ (key' \in PrevKeys /\ last >= 2 /\ e.History.Pos = last - 1) =>
                /\ e'.History.Lines = [old EXCEPT ![last] = e.Buffer]
                /\ e'.History.Pos = last - 2
                /\ e'.Buffer = old[last - 1]
                /\ e'.Cur = Len(old[last - 1])
          /\ (/\ key \in PrevKeys
              /\ status = "edit"
              /\ ioerr = "none"
              /\ out # BellOnly
              /\ last >= 2
              /\ e.History.Pos = last - 2
              /\ key' \in NextKeys) =>
                /\ e'.Buffer = old[last]
                /\ e'.Cur = Len(old[last])
                /\ e'.History.Pos = last - 1
                /\ e'.History.Lines = old]_vars

C14_Witness ==
    /\ key \in NextKeys
    /\ status = "edit"
    /\ out # BellOnly
    /\ out # <<>>
    /\ Len(e.History.Lines) = 2
    /\ e.History.Pos = 1
    /\ e.Buffer = e.History.Lines[2]
    /\ Len(e.Buffer) = 2
    /\ e.Cur = 2
    /\ e.History.Lines[1] # <<>>

HintRune == "h"

CountOf(t, blk) == Cardinality({i \in DOMAIN blk : blk[i] = t})

Contains(blk, part) ==
    \E i \in 0..(Len(blk) - Len(part)) : SubSeq(blk, i + 1, i + Len(part)) = part

RenderBody(term) ==
    <<CR>> \o Text(Prompt) \o Text(term.Buffer) \o Text(HintFn(term.Buffer)) \o <<EL0>>

\* C16: every render asks the hint provider once for the current buffer text
\* and writes the answer right after the buffer, in that render only (out holds
\* the blocks of the last command, e the Terminal it left); the hint never gets
\* into Buffer, the history or the line LineEditor returns.
C16_HintOnlyRendered ==
    /\ \A i \in DOMAIN out :
         out[i] # <<BEL>> =>
            /\ Contains(out[i], RenderBody(e))
            /\ CountOf(Ch(HintRune), out[i]) =
                  Len(HintFn(e.Buffer))
                  + (IF key = "?" THEN CountOf(Ch(HintRune), helpTable(HelpFn(e.Buffer)))
                     ELSE 0)
    /\ \A i \in DOMAIN e.Buffer : e.Buffer[i] # HintRune
    /\ \A j \in DOMAIN e.History.Lines :
         \A i \in DOMAIN e.History.Lines[j] : e.History.Lines[j][i] # HintRune
    /\ (status = "returned" => result = e.Buffer)

C16_Witness ==
    /\ status = "edit"
    /\ key = "ctrlB"
    /\ e.Buffer = <<"a">>
    /\ e.Cur = 0
    /\ Len(out) = 1
    /\ Contains(out[1], Text(Prompt) \o <<Ch("a"), Ch(HintRune), EL0>>)

\* the operation each control key runs (src/editor.go, case ctrlB .. ctrlE)
CtrlOp(k, e1, wok) ==
    CASE k = "ctrlP" -> editHistoryPrev(e1, wok)
      [] k = "ctrlN" -> editHistoryNext(e1, wok)
      [] k = "ctrlF" -> editMoveRight(e1, wok)
      [] k = "ctrlB" -> editMoveLeft(e1, wok)
      [] k = "ctrlA" -> editMoveHome(e1, wok)
      [] k = "ctrlE" -> editMoveEnd(e1, wok)
      [] k = "ctrlD" -> editDelete(e1, wok)

EscForms == {"esc[A", "esc[B", "esc[C", "esc[D", "esc[H", "esc[F", "escOH", "escOF"}

CtrlForm(k) ==
    CASE k = "esc[A" -> "ctrlP"
      [] k = "esc[B" -> "ctrlN"
      [] k = "esc[C" -> "ctrlF"
      [] k = "esc[D" -> "ctrlB"
      [] k \in {"esc[H", "escOH"} -> "ctrlA"
      [] k \in {"esc[F", "escOF"} -> "ctrlE"

\* C20: without an I/O failure each ESC [ A/B/C/D/H/F and ESC O H/F leaves
\* the Buffer, Cur, History and output of ctrl-P/N/F/B/A/E; ESC [ 3 ~ does what
\* ctrl-D does on a non-empty buffer and on an empty one rings the bell and the
\* session goes on.
C20_EscEqualsCtrl ==
    [][/\ (key' \in EscForms /\ ioerr' = "none") =>
            LET r == CtrlOp(CtrlForm(key'), e, TRUE)
            IN e' = r.e /\ out' = r.out /\ status' = "edit" /\ err' = "nil"
       /\ (key' = "esc[3~" /\ ioerr' = "none") =>
            IF Len(e.Buffer) = 0
            THEN e' = e /\ out' = BellOnly /\ status' = "edit" /\ err' = "nil"
            ELSE LET r == CtrlOp("ctrlD", e, TRUE)
                 IN e' = r.e /\ out' = r.out /\ status' = "edit" /\ err' = "nil"]_vars

C20_Witness ==
    /\ key = "esc[D"
    /\ ioerr = "none"
    /\ status = "edit"
    /\ Len(e.Buffer) = 2
    /\ e.Cur = 1
    /\ out # BellOnly
    /\ out # <<>>

\* ---- tab with and without a completion provider --------------------------
ProvidersTab == {[Complete |-> c, Help |-> TRUE, Hint |-> TRUE] : c \in BOOLEAN}

InitTab ==
    /\ \E cols \in ColsInit, prov \in ProvidersTab : e = Sized(cols, prov)
    /\ status = "idle"
    /\ result = <<>>
    /\ err = "nil"
    /\ key = "none"
    /\ out = <<>>
    /\ outErr = FALSE
    /\ ioerr = "none"
    /\ typed = [ok |-> FALSE, s |-> <<>>]
    /\ pend = <<>>
    /\ inp = <<>>
    /\ call = NoCall
    /\ conc = NoConc

NextTab ==
    \/ Start
    \/ KeyEnter
    \/ KeyTab
    \/ KeyBackspace
    \/ KeyCtrlB
    \/ KeyCtrlF
    \/ KeyInsert

SpecTab == InitTab /\ [][NextTab]_vars

\* the grid of two candidates that fit one row: "\n\r    c1    c2    \n"
Grid2(c1, c2) ==
    <<LF, CR>> \o Spaces(4) \o Text(c1) \o Spaces(4) \o Text(c2) \o Spaces(4) \o <<LF>>

OneRender(term) == refreshLine(term, TRUE, <<>>)

\* C15: tab without a completion provider inserts a tab rune at the cursor;
\* with 0 candidates it rings the bell and keeps Buffer and Cur; with 1 the
\* candidate becomes the Buffer, Cur at its end, and one render follows; with 2
\* or more the grid and one render are written, Buffer and Cur kept, on every
\* tab alike.
C15_TabCases ==
    [][(key' = "tab" /\ ioerr' = "none") =>
          LET opts == CompleteFn(e.Buffer)
              ins == [e EXCEPT !.Buffer = SubSeq(e.Buffer, 1, e.Cur) \o <<"TAB">>
                                            \o SubSeq(e.Buffer, e.Cur + 1, Len(e.Buffer)),
                               !.Cur = e.Cur + 1]
              one == [e EXCEPT !.Buffer = opts[1], !.Cur = Len(opts[1])]
          IN /\ status' = "edit"
             /\ IF ~e.Complete
                THEN e' = OneRender(ins).e /\ out' = OneRender(ins).out
                ELSE IF Len(opts) = 0
                THEN e' = e /\ out' = BellOnly
                ELSE IF Len(opts) = 1
                THEN e' = OneRender(one).e /\ out' = OneRender(one).out
                ELSE /\ e'.Buffer = e.Buffer
                     /\ e'.Cur = e.Cur
                     /\ e' = OneRender(e).e
                     /\ Len(out') = 1
                     /\ Len(opts) = 2 =>
                           out'[1] = Grid2(opts[1], opts[2]) \o OneRender(e).out[1]]_vars

C15_Witness ==
    /\ key = "tab"
    /\ status = "edit"
    /\ e.Complete
    /\ e.Buffer = <<>>
    /\ Len(out) = 1
    /\ Contains(out[1], Grid2(<<"a">>, <<"a", " ">>) \o <<CR>> \o Text(Prompt) \o <<EL0>>)

\* ---- Adjust and WriteOut --------------------------------------------------
\* Bytes of the input stream are strings: "ESC", "[", ";", "R", the digits and
\* "x" for any other byte.
DigitSeq == <<"0", "1", "2", "3", "4", "5", "6", "7", "8", "9">>
Digits == {DigitSeq[i] : i \in DOMAIN DigitSeq}
DigitVal(d) == (CHOOSE i \in DOMAIN DigitSeq : DigitSeq[i] = d) - 1

\* the width of int in the build (strconv.IntSize): 64, or 32
IntBits == 64

\* the largest int, 2^(IntBits-1) - 1, as a numeral
MaxIntNumeral ==
    IF IntBits = 64
    THEN <<"9", "2", "2", "3", "3", "7", "2", "0", "3", "6",
           "8", "5", "4", "7", "7", "5", "8", "0", "7">>
    ELSE <<"2", "1", "4", "7", "4", "8", "3", "6", "4", "7">>

RECURSIVE StripZeros(_)
StripZeros(ds) ==
    IF Len(ds) > 1 /\ Head(ds) = "0" THEN StripZeros(Tail(ds)) ELSE ds

\* a <= b for numerals of the same length
RECURSIVE NumeralLeq(_, _)
NumeralLeq(a, b) ==
    IF a = <<>> THEN TRUE
    ELSE IF DigitVal(Head(a)) < DigitVal(Head(b)) THEN TRUE
    ELSE IF DigitVal(Head(a)) > DigitVal(Head(b)) THEN FALSE
    ELSE NumeralLeq(Tail(a), Tail(b))

RECURSIVE NumeralVal(_)
NumeralVal(ds) ==
    IF ds = <<>> THEN 0
    ELSE NumeralVal(SubSeq(ds, 1, Len(ds) - 1)) * 10 + DigitVal(ds[Len(ds)])

\* strconv.Atoi on a non-empty run of digits: the value, or a range error
\* when it exceeds the largest int
Atoi(ds) ==
    LET s == StripZeros(ds)
        fits == \/ Len(s) < Len(MaxIntNumeral)
                \/ Len(s) = Len(MaxIntNumeral) /\ NumeralLeq(s, MaxIntNumeral)
    IN IF fits THEN [ok |-> TRUE, v |-> NumeralVal(s)] ELSE [ok |-> FALSE, v |-> 0]

IsDigits(s) == s # <<>> /\ \A i \in DOMAIN s : s[i] \in Digits

\* bufio.Reader.ReadString('R'): the bytes up to and including the first 'R',
\* or everything there is and an error
ReadString(stream) ==
    LET rs == {i \in DOMAIN stream : stream[i] = "R"}
    IN IF rs = {} THEN [ok |-> FALSE, res |-> stream, rest |-> <<>>]
       ELSE LET i == CHOOSE i \in rs : \A j \in rs : i <= j
            IN [ok |-> TRUE, res |-> SubSeq(stream, 1, i),
                rest |-> SubSeq(stream, i + 1, Len(stream))]

\* the index of the last byte of the run of digits that starts at p (p - 1
\* when there is none)
RECURSIVE DigitRun(_, _)
DigitRun(res, p) ==
    IF p <= Len(res) /\ res[p] \in Digits THEN DigitRun(res, p + 1) ELSE p - 1

\* ESC [ digits ; digits R matched at index i
MatchAt(res, i) ==
    IF i + 1 > Len(res) \/ res[i] # "ESC" \/ res[i + 1] # "[" THEN <<>>
    ELSE LET j == DigitRun(res, i + 2) IN
         IF j < i + 2 \/ j + 1 > Len(res) \/ res[j + 1] # ";" THEN <<>>
         ELSE LET k == DigitRun(res, j + 2) IN
              IF k < j + 2 \/ k + 1 > Len(res) \/ res[k + 1] # "R" THEN <<>>
              ELSE <<SubSeq(res, i + 2, j), SubSeq(res, j + 2, k)>>

\* curPosPattern.FindStringSubmatch: the two digit groups of the leftmost
\* match of ESC [ digits ; digits R, or nil (the empty sequence)
FindStringSubmatch(res) ==
    LET at == {i \in DOMAIN res : MatchAt(res, i) # <<>>}
    IN IF at = {} THEN <<>>
       ELSE MatchAt(res, CHOOSE i \in at : \A o \in at : i <= o)

Probe == <<Tok("DECSC", 0), Tok("CUP", 999), Tok("DSR", 6)>>
Restore == <<Tok("DECRC", 0)>>

\* mutant: the two fields of the report exchanged
adjustParseSwapped(e1, res) ==
    LET ms == FindStringSubmatch(res) IN
    IF ms = <<>> THEN [e |-> e1, err |-> "panic", wr |-> <<>>]
    ELSE IF ~Atoi(ms[1]).ok \/ ~Atoi(ms[2]).ok THEN [e |-> e1, err |-> "range", wr |-> <<>>]
    ELSE [e |-> [e1 EXCEPT !.Cols = Atoi(ms[1]).v, !.Rows = Atoi(ms[2]).v],
          err |-> "nil", wr |-> Restore]

\* Adjust after the read: ms[1] and ms[2] are indexed without a test of ms
adjustParse(e1, res) ==
    LET ms == FindStringSubmatch(res) IN
    IF ms = <<>> THEN [e |-> e1, err |-> "panic", wr |-> <<>>]
    ELSE IF ~Atoi(ms[1]).ok \/ ~Atoi(ms[2]).ok THEN [e |-> e1, err |-> "range", wr |-> <<>>]
    ELSE [e |-> [e1 EXCEPT !.Cols = Atoi(ms[2]).v, !.Rows = Atoi(ms[1]).v],
          err |-> "nil", wr |-> Restore]

\* bytes.ReplaceAll(b, "\n", "\r\n"), as output tokens
RECURSIVE ReplaceLF(_)
ReplaceLF(b) ==
    IF b = <<>> THEN <<>>
    ELSE (IF Head(b) = "LF" THEN <<CR, LF>> ELSE <<Ch(Head(b))>>) \o ReplaceLF(Tail(b))

\* WriteOut: what it leaves, flushes and returns.  pnd is what the writer
\* already holds; wok1 is the fate of the payload's flush, wok2 of the render's.
\* mutant: the count of translated bytes is returned
writeOutTranslated(e1, b, pnd, wok1, wok2) ==
    LET z == notZero(e1)
        r == refreshLine(z, wok2, <<>>)
    IN IF ~wok1 THEN [e |-> z, out |-> <<>>, n |-> 0, err |-> TRUE]
       ELSE [e |-> r.e, out |-> <<pnd \o <<CR, EL0>> \o ReplaceLF(b)>> \o r.out,
             n |-> Len(ReplaceLF(b)), err |-> r.err]

writeOut(e1, b, pnd, wok1, wok2) ==
    LET z == notZero(e1)
        r == refreshLine(z, wok2, <<>>)
    IN IF ~wok1 THEN [e |-> z, out |-> <<>>, n |-> 0, err |-> TRUE]
       ELSE [e |-> r.e, out |-> <<pnd \o <<CR, EL0>> \o ReplaceLF(b)>> \o r.out,
             n |-> Len(b), err |-> r.err]

\* ---- inputs of Adjust and WriteOut ----------------------------------------
\* numerals of a report, with the value the row or column count should get
Numerals ==
    {[ds |-> <<"5">>, v |-> 5, fits |-> TRUE],
     [ds |-> <<"0", "3">>, v |-> 3, fits |-> TRUE],
     [ds |-> <<"1", "0", "0">>, v |-> 100, fits |-> TRUE],
     [ds |-> <<"2", "0", "0">>, v |-> 200, fits |-> TRUE],
     [ds |-> [MaxIntNumeral EXCEPT ![Len(MaxIntNumeral)] = "8"], v |-> 0, fits |-> FALSE]}

Report(r, c) == <<"ESC", "[">> \o r \o <<";">> \o c \o <<"R">>

GarbagePrefixes == {<<>>, <<"x">>}

Reports == {Report(r.ds, c.ds) : r \in Numerals, c \in Numerals}

Malformed ==
    {<<"R">>, <<"x", "R">>, <<"ESC", "[", "5", "R">>, <<"ESC", "[", ";", "5", "R">>,
     <<"ESC", "[", "5", ";", "x", "R">>}

Unterminated == {<<>>, <<"ESC", "[", "5", ";", "5">>}

Responses ==
    Reports \cup {Report(<<"5">>, <<"5">>) \o <<"x">>} \cup Malformed \cup Unterminated

Payloads == {<<>>, <<"b">>, <<"b", "LF">>, <<"LF", "b", "LF">>}

BuffersIO == {Repeat(<<"a">>, n) : n \in 0..MaxLen}

ColsIO == {0, 3}

InitIO ==
    /\ \E cols \in ColsIO, prov \in Providers, buf \in BuffersIO :
         \E cur \in 0..Len(buf) :
            e = [Sized(cols, prov) EXCEPT !.Buffer = buf, !.Cur = cur]
    /\ status = "idle"
    /\ result = <<>>
    /\ err = "nil"
    /\ key = "none"
    /\ out = <<>>
    /\ outErr = FALSE
    /\ ioerr = "none"
    /\ typed = [ok |-> FALSE, s |-> <<>>]
    /\ pend = <<>>
    /\ inp = <<>>
    /\ call = NoCall
    /\ conc = NoConc

\* Adjust up to the read: WriteString of the probe and Flush.  What a failed
\* writer holds is never written, so pend is left as it is.  Adjust reads
\* from Inp, which LineEditor reads throughout a session, so it is called
\* before a session or after LineEditor returned.
AdjustProbe ==
    /\ status \in {"idle", "returned"}
    /\ call.pc = "done"
    /\ \E wok \in WOK :
         IF wok
         THEN /\ out' = <<pend \o Probe>>
              /\ pend' = <<>>
              /\ ioerr' = "none"
              /\ call' = [op |-> "Adjust", pc |-> "sent", arg |-> <<>>, n |-> 0, err |-> "nil"]
              /\ UNCHANGED outErr
         ELSE /\ out' = <<>>
              /\ outErr' = TRUE
              /\ ioerr' = "write"
              /\ call' = [op |-> "Adjust", pc |-> "done", arg |-> <<>>, n |-> 0, err |-> "write"]
              /\ UNCHANGED pend
    /\ key' = "Adjust"
    /\ UNCHANGED <<e, status, result, err, typed, inp, conc>>

\* Adjust from ReadString('R') on; the terminal's answer (one of answers)
\* follows what the reader still holds; call.arg is what ReadString returned.
\* The cursor-restore sequence is written to the bufio.Writer and not flushed.
AdjustReadFrom(answers) ==
    /\ status \in {"idle", "returned"}
    /\ \E resp \in answers :
         LET rd == ReadString(inp \o resp)
             p == adjustParse(e, rd.res)
         IN /\ inp' = rd.rest
            /\ IF ~rd.ok
               THEN /\ call' = [op |-> "Adjust", pc |-> "done", arg |-> rd.res, n |-> 0,
                                err |-> "read"]
                    /\ ioerr' = "read"
                    /\ UNCHANGED <<e, status, pend>>
               ELSE /\ call' = [op |-> "Adjust", pc |-> "done", arg |-> rd.res, n |-> 0,
                                err |-> p.err]
                    /\ ioerr' = "none"
                    /\ e' = p.e
                    /\ pend' = pend \o p.wr
                    /\ status' = IF p.err = "panic" THEN "panic" ELSE status
    /\ key' = "Adjust"
    /\ UNCHANGED <<result, err, out, outErr, typed, conc>>

AdjustRead ==
    /\ call.pc = "sent"
    /\ AdjustReadFrom(Responses)

\* WriteOut, called by the goroutine of the session: before a session, after
\* LineEditor returned, or between two keys (the reader the application gave
\* to Inp calls it from its Read, while LineEditor is in ReadRune, before it
\* hands out the next key).  No other goroutine touches the Terminal, so the
\* call is one step (WriteOut beside a running key command is what SpecConc
\* is about).  call.n and call.err are what it returns.
WriteOut ==
    /\ status # "panic"
    /\ call.pc = "done"
    /\ \E b \in Payloads, wok1 \in WOK, wok2 \in BOOLEAN :
         LET w == writeOut(e, b, pend, wok1, wok2)
         IN /\ e' = w.e
            /\ out' = w.out
            /\ outErr' = (outErr \/ w.err)
            /\ ioerr' = IF w.err THEN "write" ELSE "none"
            /\ pend' = IF wok1 THEN <<>> ELSE pend
            /\ call' = [op |-> "WriteOut", pc |-> "done", arg |-> b, n |-> w.n,
                        err |-> IF w.err THEN "write" ELSE "nil"]
    /\ key' = "WriteOut"
    /\ UNCHANGED <<status, result, err, typed, inp, conc>>

\* index of the first "\n" of buf, 0 when there is none (bytes.IndexByte + 1)
IndexLF(buf) ==
    IF \E i \in DOMAIN buf : buf[i] = "LF"
    THEN CHOOSE i \in DOMAIN buf : buf[i] = "LF" /\ \A j \in 1..(i - 1) : buf[j] # "LF"
    ELSE 0

\* Terminal.Write: the loop over buf.  ws are the writes Raw has taken,
\* written the count so far; the k-th call of Raw.Write from here fails
\* (k = 0: none does) after it took nn of its bytes.  nn is added to written
\* before the error is looked at; the count of a failed "\r\n" is dropped.
\* The part before a "\n" is written even when it is empty.
RECURSIVE writeLoop(_, _, _, _, _)
writeLoop(buf, ws, written, k, nn) ==
    IF buf = <<>> THEN [out |-> ws, n |-> written, err |-> FALSE]
    ELSE LET i == IndexLF(buf)
             todo == IF i > 0 THEN i - 1 ELSE Len(buf)
             chunk == Text(SubSeq(buf, 1, todo))
             part == SubSeq(chunk, 1, Min(nn, todo))
             crlf == SubSeq(<<CR, LF>>, 1, Min(nn, 2))
         IN IF k = 1
            THEN [out |-> IF part = <<>> THEN ws ELSE Append(ws, part),
                  n |-> written + Len(part), err |-> TRUE]
            ELSE IF i = 0
            THEN writeLoop(<<>>, Append(ws, chunk), written + todo, Max(k - 1, 0), nn)
            ELSE IF k = 2
            THEN [out |-> IF crlf = <<>> THEN Append(ws, chunk)
                          ELSE Append(Append(ws, chunk), crlf),
                  n |-> written + todo, err |-> TRUE]
            ELSE writeLoop(SubSeq(buf, todo + 2, Len(buf)),
                           Append(Append(ws, chunk), <<CR, LF>>),
                           written + todo + 1, Max(k - 2, 0), nn)

\* the calls of Raw.Write that Terminal.Write makes for payload b
RECURSIVE RawWrites(_)
RawWrites(b) ==
    IF b = <<>> THEN 0
    ELSE LET i == IndexLF(b)
         IN IF i = 0 THEN 1 ELSE 2 + RawWrites(SubSeq(b, i + 1, Len(b)))

\* the counts a failing Raw.Write can return for a payload of Payloads
Taken == 0..2

\* Terminal.Write, the io.Writer of the application, called by the goroutine
\* that runs the other calls: before a session, after LineEditor returned
\* (the loop of the README), or in a session from the reader the application
\* gave to Inp, before it hands out the next key.  The payload goes to Raw,
\* past the bufio.Writer (what that one holds stays there), with "\n" sent
\* as "\r\n"; no render.  call.n and call.err are what it returns.  On a
\* Terminal whose Raw is nil the first Raw.Write is a nil dereference.
Write ==
    /\ status # "panic"
    /\ call.pc = "done"
    /\ \E b \in Payloads :
         IF b # <<>> /\ ~e.Raw
         THEN /\ status' = "panic"
              /\ out' = <<>>
              /\ ioerr' = "none"
              /\ call' = [op |-> "Write", pc |-> "done", arg |-> b, n |-> 0,
                          err |-> "panic"]
         ELSE \E k \in 0..RawWrites(b), nn \in Taken :
                LET w == writeLoop(b, <<>>, 0, k, nn)
                IN /\ (k = 0 => nn = 0)
                   /\ out' = w.out
                   /\ ioerr' = IF w.err THEN "write" ELSE "none"
                   /\ call' = [op |-> "Write", pc |-> "done", arg |-> b, n |-> w.n,
                               err |-> IF w.err THEN "write" ELSE "nil"]
                   /\ UNCHANGED status
    /\ key' = "Write"
    /\ UNCHANGED <<e, result, err, outErr, typed, pend, inp, conc>>

NextIO ==
    \/ AdjustProbe
    \/ AdjustRead
    \/ WriteOut
    \/ Write

SpecIO == InitIO /\ [][NextIO]_vars

\* the step of Adjust that reads and parses
AdjustReads == call.op = "Adjust" /\ call.pc = "sent" /\ call'.pc = "done"

EndsWith(blk, part) ==
    Len(blk) >= Len(part) /\ SubSeq(blk, Len(blk) - Len(part) + 1, Len(blk)) = part

ProbeFlushedFirst ==
    /\ (inp' # inp => AdjustReads)
    /\ AdjustReads =>
          (Len(out) = 1 /\ EndsWith(out[1], Probe) /\ pend = <<>> /\ ioerr = "none")

\* C17 as stated: the probe is written and flushed before anything is read, and
\* for a response ESC [ r ; c R with any decimal r and c Adjust sets Rows = r,
\* Cols = c and returns nil.
C17_AnyDecimalReport ==
    [][/\ ProbeFlushedFirst
       /\ AdjustReads =>
            \A r \in Numerals, c \in Numerals, g \in GarbagePrefixes :
               call'.arg = g \o Report(r.ds, c.ds) =>
                  (call'.err = "nil" /\ e'.Rows = r.v /\ e'.Cols = c.v)]_vars

\* C17 (amended): the probe is written and flushed before anything is read, and
\* for a response ESC [ r ; c R with decimal r and c that both fit in an int
\* Adjust sets Rows = r, Cols = c and returns nil; when r or c does not fit in
\* an int it returns the range error of the conversion, leaves Rows and Cols
\* as they were and does not write the cursor-restore sequence.
C17_ProbeThenReport ==
    [][/\ ProbeFlushedFirst
       /\ AdjustReads =>
            \A r \in Numerals, c \in Numerals, g \in GarbagePrefixes :
               call'.arg = g \o Report(r.ds, c.ds) =>
                  IF r.fits /\ c.fits
                  THEN /\ call'.err = "nil"
                       /\ status' = status
                       /\ e'.Rows = r.v
                       /\ e'.Cols = c.v
                  ELSE /\ call'.err = "range"
                       /\ status' = status
                       /\ e'.Rows = e.Rows
                       /\ e'.Cols = e.Cols
                       /\ pend' = pend]_vars

C17_Witness ==
    /\ call.op = "Adjust"
    /\ call.pc = "done"
    /\ call.err = "nil"
    /\ call.arg = Report(<<"1", "0", "0">>, <<"2", "0", "0">>)
    /\ e.Rows = 100
    /\ e.Cols = 200
    /\ out = <<Probe>>
    /\ pend = Restore

WellFormedReport(res) ==
    \E r \in Numerals, c \in Numerals, g \in GarbagePrefixes : res = g \o Report(r.ds, c.ds)

\* C18: when what Adjust reads up to the first 'R' holds no well-formed report,
\* or the read fails, Adjust returns an error, does not fault, and leaves Rows
\* and Cols as they were.
C18_MalformedIsError ==
    [][(AdjustReads /\ ~WellFormedReport(call'.arg)) =>
          /\ status' # "panic"
          /\ call'.err \notin {"nil", "panic"}
          /\ e'.Rows = e.Rows
          /\ e'.Cols = e.Cols]_vars

\* C19: WriteOut(b) flushes "\r", erase-to-end, b with "\r\n" for every "\n"
\* (after what the writer still held), then renders the prompt and Buffer once
\* and returns len(b); Buffer, Cur and History stay as they were; when the
\* payload cannot be written it returns 0 and the error and renders nothing.
C19_WriteOut ==
    [][call'.op = "WriteOut" =>
          LET b == call'.arg IN
          /\ e'.Buffer = e.Buffer
          /\ e'.Cur = e.Cur
          /\ e'.History = e.History
          /\ IF out' = <<>>
             THEN call'.n = 0 /\ call'.err = "write"
             ELSE /\ out'[1] = pend \o <<CR, EL0>> \o ReplaceLF(b)
                  /\ call'.n = Len(b)
                  /\ IF call'.err = "nil"
                     THEN out' = <<out'[1], OneRender(notZero(e)).out[1]>>
                     ELSE out' = <<out'[1]>>]_vars

C19_Witness ==
    /\ call.op = "WriteOut"
    /\ call.arg = <<"b", "LF">>
    /\ call.n = 2
    /\ call.err = "nil"
    /\ e.Buffer = <<"a">>
    /\ e.Cur = 0
    /\ Len(out) = 2
    /\ out[1] = <<CR, EL0, Ch("b"), CR, LF>>
    /\ Contains(out[2], <<CR>> \o Text(Prompt) \o <<Ch("a"), Ch(HintRune), EL0, CR>>)

\* ---- LineEditor reading a given finite stream ------------------------------
\* The stream is a sequence of runes; a read past its end fails, and keeps
\* failing.  One loop iteration is decoded from the head of the stream.
MaxStream == 4

StreamRunes == {"a", "ESC", "[", "O", "3", "5", "~", "enter", "ctrlC", "ctrlD"}

\* the runes of the streams on which termination is checked
LiveRunes == {"a", "ESC", "[", "enter", "ctrlT"}

EndOfStream == "EOF!"

ReadRune(s, i) == IF i <= Len(s) THEN s[i] ELSE EndOfStream

\* results of one loop iteration: the Terminal, the flushed blocks, whether a
\* write failed, whether a read failed, the runes consumed, what LineEditor returns ("none": it goes on)
Ran(res, k, used) ==
    [e |-> res.e, out |-> res.out, werr |-> res.err, rerr |-> FALSE, used |-> used, key |-> k,
     ret |-> IF res.panic THEN "panic" ELSE IF res.err THEN "write" ELSE "none"]

RanEsc(res, k, used) ==
    [e |-> res.e, out |-> res.out, werr |-> res.err, rerr |-> FALSE, used |-> used, key |-> k,
     ret |-> "none"]

Left(e1, k, used, ret) ==
    [e |-> e1, out |-> <<>>, werr |-> (ret = "write"), rerr |-> (ret = "read"), used |-> used,
     key |-> k, ret |-> ret]

\* the loop goes on although a read failed: the error was dropped
Dropped(e1, k, used) == [Left(e1, k, used, "none") EXCEPT !.rerr = TRUE]

\* mutant: after ESC [ digit no further rune is read
escBodyNoSkip(e1, s, wok) ==
    LET r1 == ReadRune(s, 2)
        r2 == ReadRune(s, 3)
        r3 == ReadRune(s, 4)
    IN IF r1 = EndOfStream THEN Left(e1, "esc!", 1, "read")
       ELSE IF r1 = "["
       THEN IF r2 = EndOfStream THEN Left(e1, "esc[!", 2, "read")
            ELSE IF r2 \in Digits \ {"3"} THEN Left(e1, "esc[dx", 3, "none")
            ELSE IF r2 = "3"
            THEN IF r3 = EndOfStream THEN Left(e1, "esc[3!", 3, "read")
                 ELSE IF r3 = "~" THEN RanEsc(editDelete(e1, wok), "esc[3~", 4)
                 ELSE Left(e1, "esc[3x", 4, "none")
            ELSE IF r2 \in {"A", "B", "C", "D", "H", "F"}
            THEN RanEsc(CsiOp(r2, e1, wok), CsiKey(r2), 3)
            ELSE Left(e1, "esc[x", 3, "none")
       ELSE IF r1 = "O"
       THEN IF r2 = EndOfStream THEN Left(e1, "escO!", 2, "read")
            ELSE IF r2 = "H" THEN RanEsc(editMoveHome(e1, wok), "escOH", 3)
            ELSE IF r2 = "F" THEN RanEsc(editMoveEnd(e1, wok), "escOF", 3)
            ELSE Left(e1, "escOx", 3, "none")
       ELSE Left(e1, "esc x", 2, "none")

\* case esc: the error of the read after ESC [ digit is dropped
escBody(e1, s, wok) ==
    LET r1 == ReadRune(s, 2)
        r2 == ReadRune(s, 3)
        r3 == ReadRune(s, 4)
    IN IF r1 = EndOfStream THEN Left(e1, "esc!", 1, "read")
       ELSE IF r1 = "["
       THEN IF r2 = EndOfStream THEN Left(e1, "esc[!", 2, "read")
            ELSE IF r2 \in Digits \ {"3"}
            THEN IF r3 = EndOfStream THEN Dropped(e1, "esc[dx", 3)
                 ELSE Left(e1, "esc[dx", 4, "none")
            ELSE IF r2 = "3"
            THEN IF r3 = EndOfStream THEN Left(e1, "esc[3!", 3, "read")
                 ELSE IF r3 = "~" THEN RanEsc(editDelete(e1, wok), "esc[3~", 4)
                 ELSE Left(e1, "esc[3x", 4, "none")
            ELSE IF r2 \in {"A", "B", "C", "D", "H", "F"}
            THEN RanEsc(CsiOp(r2, e1, wok), CsiKey(r2), 3)
            ELSE Left(e1, "esc[x", 3, "none")
       ELSE IF r1 = "O"
       THEN IF r2 = EndOfStream THEN Left(e1, "escO!", 2, "read")
            ELSE IF r2 = "H" THEN RanEsc(editMoveHome(e1, wok), "escOH", 3)
            ELSE IF r2 = "F" THEN RanEsc(editMoveEnd(e1, wok), "escOF", 3)
            ELSE Left(e1, "escOx", 3, "none")
       ELSE Left(e1, "esc x", 2, "none")

\* the body of the for loop; oe is the sticky error of the writer
loopBody(e1, s, wok, oe) ==
    LET r == ReadRune(s, 1) IN
    IF r = EndOfStream THEN Left(e1, "readerr", 0, "read")
    ELSE CASE r = "enter" -> Left(e1, "enter", 1, "nil")
           [] r = "tab" -> Ran(completeLine(e1, wok), "tab", 1)
           [] r = "?" -> Ran(printHelp(e1, wok), "?", 1)
           [] r \in {"backspace", "ctrlH"} -> Ran(editBackspace(e1, wok), r, 1)
           [] r = "ctrlC" -> Left(e1, "ctrlC", 1, "try again")
           [] r = "ctrlD" -> IF Len(e1.Buffer) = 0 THEN Left(e1, "ctrlD", 1, "EOF")
                             ELSE Ran(editDelete(e1, wok), "ctrlD", 1)
           [] r = "ESC" -> escBody(e1, s, wok)
           [] r = "ctrlL" -> IF oe THEN Left(e1, "ctrlL", 1, "write")
                             ELSE Ran(refreshLine(e1, wok, clearScreen), "ctrlL", 1)
           [] r = "ctrlW" -> Ran(editDeletePrevWord(e1, wok), "ctrlW", 1)
           [] r = "ctrlB" -> Ran(editMoveLeft(e1, wok), "ctrlB", 1)
           [] r = "ctrlF" -> Ran(editMoveRight(e1, wok), "ctrlF", 1)
           [] r = "ctrlP" -> Ran(editHistoryPrev(e1, wok), "ctrlP", 1)
           [] r = "ctrlN" -> Ran(editHistoryNext(e1, wok), "ctrlN", 1)
           [] r = "ctrlU" -> Ran(LineReset(e1, wok), "ctrlU", 1)
           [] r = "ctrlK" -> Ran(editKillForward(e1, wok), "ctrlK", 1)
           [] r = "ctrlA" -> Ran(editMoveHome(e1, wok), "ctrlA", 1)
           [] r = "ctrlE" -> Ran(editMoveEnd(e1, wok), "ctrlE", 1)
           [] r = "ctrlT" -> Ran(editSwap(e1, wok), "ctrlT", 1)
           [] OTHER -> Ran(editInsert(e1, r, wok), "insert", 1)

Streams == SeqsUpTo(StreamRunes, MaxStream)

InitOn(streams) ==
    /\ \E cols \in ColsInit, prov \in Providers : e = Sized(cols, prov)
    /\ status = "idle"
    /\ result = <<>>
    /\ err = "nil"
    /\ key = "none"
    /\ out = <<>>
    /\ outErr = FALSE
    /\ ioerr = "none"
    /\ typed = [ok |-> FALSE, s |-> <<>>]
    /\ pend = <<>>
    /\ inp \in streams
    /\ call = NoCall
    /\ conc = NoConc

InitStream == InitOn(Streams)

InitLive == InitOn(SeqsUpTo(LiveRunes, MaxStream))

\* the one call of LineEditor on the stream
StartStream ==
    /\ status = "idle"
    /\ Start

Iterate ==
    /\ status = "edit"
    /\ \E wok \in WOK :
         LET b == loopBody(e, inp, wok, outErr) IN
         /\ key' = b.key
         /\ e' = b.e
         /\ out' = Flushed(b.out, pend)
         /\ pend' = Held(b.out, pend)
         /\ outErr' = (outErr \/ b.werr)
         /\ ioerr' = IF b.werr THEN "write" ELSE IF b.rerr THEN "read" ELSE "none"
         /\ inp' = SubSeq(inp, b.used + 1, Len(inp))
         /\ IF b.ret = "none" THEN UNCHANGED <<status, result, err>>
            ELSE IF b.ret = "panic" THEN status' = "panic" /\ UNCHANGED <<result, err>>
            ELSE Return(b.e, b.ret)
    /\ typed' = Dirty
    /\ UNCHANGED <<call, conc>>

NextStream ==
    \/ StartStream
    \/ Iterate

SpecStream == InitStream /\ [][NextStream]_vars

\* the loop is a sequential program: it takes its next step whenever it has one
SpecStreamLive == InitLive /\ [][NextStream]_vars /\ WF_vars(NextStream)

CsiLetters == {"A", "B", "C", "D", "H", "F"}

\* the length of the unrecognized escape sequence at the head of s (0: none)
UnrecognizedLen(s) ==
    IF Len(s) >= 2 /\ s[1] = "ESC" /\ s[2] \notin {"[", "O"} THEN 2
    ELSE IF Len(s) >= 3 /\ s[1] = "ESC" /\ s[2] = "O" /\ s[3] \notin {"H", "F"} THEN 3
    ELSE IF Len(s) >= 3 /\ s[1] = "ESC" /\ s[2] = "["
    THEN IF s[3] \notin (Digits \cup CsiLetters) THEN 3
         ELSE IF Len(s) >= 4 /\ s[3] \in Digits /\ (s[3] # "3" \/ s[4] # "~") THEN 4
         ELSE 0
    ELSE 0

\* C21: an unrecognized escape sequence (ESC [ d x, ESC [ 3 x, ESC [ x, ESC O x,
\* ESC x) consumes exactly its runes, leaves the Terminal as it was, writes
\* nothing and returns nothing: the loop goes on with the rune after x, also
\* when x is enter, ctrl-C or ctrl-D (the session is still in the loop, with no
\* result and no error, after the step that consumed x, and that step is the
\* discard of the form, not a command).
C21_UnrecognizedDiscarded ==
    [][(status = "edit" /\ UnrecognizedLen(inp) > 0) =>
          /\ inp' = SubSeq(inp, UnrecognizedLen(inp) + 1, Len(inp))
          /\ e' = e
          /\ out' = <<>>
          /\ status' = "edit"
          /\ err' = "nil"
          /\ result' = <<>>
          /\ key' \in {"esc[dx", "esc[3x", "esc[x", "escOx", "esc x"}]_vars

C21_Witness ==
    /\ status = "edit"
    /\ key = "esc[3x"
    /\ e.Buffer = <<>>
    /\ out = <<>>
    /\ inp = <<>>
    /\ ioerr = "none"

\* C28: on every finite stream whose end is a persistent read error LineEditor
\* eventually returns.
C28_EventuallyReturns == <>(status = "returned")

\* every iteration that goes on consumed one to four runes, and the call ends
\* in a return or a fault
IterationsConsume ==
    [][status = "edit" =>
          /\ Len(inp) - Len(inp') \in 0..4
          /\ (status' = "edit" => Len(inp) - Len(inp') >= 1)]_vars

EventuallyEnds == <>(status \in {"returned", "panic"})

\* C22: within one session MaxRows never decreases, ctrl-U included.
C22_MaxRowsMonotone ==
    [][(status = "edit" /\ ioerr' = "none") => e'.MaxRows >= e.MaxRows]_vars

\* C23: outside a full reset OldCur changes only in a render whose writes and
\* flush all succeeded, and then equals Cur; a failed render leaves it alone.
C23_OldCurOnSuccess ==
    [][(status = "edit" /\ key' # "ctrlU" /\ e'.OldCur # e.OldCur) =>
          (ioerr' = "none" /\ out' # <<>> /\ out' # BellOnly /\ e'.OldCur = e'.Cur)]_vars

\* ---- the rows of the terminal ----------------------------------------------
\* The cursor of the terminal as the output moves it: cursor-down/up n, line
\* feed, and a rune written when the row is full goes to the next row.
TermStep(p, t, cols) ==
    IF t = CR THEN [p EXCEPT !.col = 0]
    ELSE IF t = LF THEN [p EXCEPT !.row = p.row + 1]
    ELSE IF t.k = "CUD" THEN [p EXCEPT !.row = p.row + t.n]
    ELSE IF t.k = "CUU" THEN [p EXCEPT !.row = p.row - t.n]
    ELSE IF t.k = "CUF" THEN [p EXCEPT !.col = Min(p.col + t.n, cols - 1)]
    ELSE IF t.k \in {"EL0", "EL2", "BEL", "HOME", "ED2"} THEN p
    ELSE IF p.col >= cols THEN [row |-> p.row + 1, col |-> 1]
    ELSE [p EXCEPT !.col = p.col + 1]

RECURSIVE TermRun(_, _, _)
TermRun(p, blk, cols) ==
    IF blk = <<>> THEN p ELSE TermRun(TermStep(p, Head(blk), cols), Tail(blk), cols)

\* the part of a render block before the "\r" that precedes the prompt
BeforePrompt(blk) ==
    LET crs == {i \in DOMAIN blk : blk[i] = CR}
    IN IF crs = {} THEN blk
       ELSE SubSeq(blk, 1, (CHOOSE i \in crs : \A j \in crs : i <= j) - 1)

RECURSIVE Flat(_)
Flat(blocks) == IF blocks = <<>> THEN <<>> ELSE Head(blocks) \o Flat(Tail(blocks))

\* One session with the sink never failing; call.n is the row of the terminal's
\* cursor, counted from the row on which the session's first render began.
MaxDrift == 2

RowKeys == {"a", "backspace", "ctrlB", "ctrlF", "ctrlA", "ctrlU"}

ProvidersRows == {[Complete |-> TRUE, Help |-> TRUE, Hint |-> h] : h \in BOOLEAN}

ColsRows == {3, 4}

InitRows ==
    /\ \E cols \in ColsRows, prov \in ProvidersRows : e = Sized(cols, prov)
    /\ status = "idle"
    /\ result = <<>>
    /\ err = "nil"
    /\ key = "none"
    /\ out = <<>>
    /\ outErr = FALSE
    /\ ioerr = "none"
    /\ typed = [ok |-> FALSE, s |-> <<>>]
    /\ pend = <<>>
    /\ inp = <<>>
    /\ call = NoCall
    /\ conc = NoConc

OnRow(n) == [op |-> "row", pc |-> "done", arg |-> <<>>, n |-> n, err |-> "nil"]

StartRows ==
    /\ status = "idle"
    /\ LET res == LineReset(e, TRUE) IN
         /\ e' = res.e
         /\ out' = res.out
         /\ call' = OnRow(TermRun([row |-> 0, col |-> 0], Flat(res.out), res.e.Cols).row)
    /\ key' = "start"
    /\ status' = "edit"
    /\ UNCHANGED <<result, err, outErr, ioerr, typed, pend, inp, conc>>

KeyRows ==
    /\ status = "edit"
    /\ call.n \in (0 - MaxDrift)..MaxDrift
    /\ \E r \in RowKeys :
         /\ r = "a" => Len(e.Buffer) < MaxLen
         /\ LET b == loopBody(e, <<r>>, TRUE, FALSE) IN
              /\ key' = b.key
              /\ e' = b.e
              /\ out' = b.out
              /\ call' = OnRow(TermRun([row |-> call.n, col |-> 0], Flat(b.out), b.e.Cols).row)
    /\ UNCHANGED <<status, result, err, outErr, ioerr, typed, pend, inp, conc>>

NextRows ==
    \/ StartRows
    \/ KeyRows

SpecRows == InitRows /\ [][NextRows]_vars

\* C24: every render of a session starts to write the prompt on the row of the
\* session's first render (row 0) and leaves the cursor on row
\* (pw + cw) div Cols, also for a line of two or more rows and when it shrinks.
C24_RenderKeepsRow ==
    [][(out' # <<>> /\ out' # BellOnly) =>
          LET from == IF status = "idle" THEN 0 ELSE call.n
              pw == visualWidth(Prompt)
              cw == SumWidth(SubSeq(e'.Buffer, 1, e'.Cur))
          IN /\ TermRun([row |-> from, col |-> 0], BeforePrompt(out'[1]), e'.Cols).row = 0
             /\ call'.n = (pw + cw) \div e'.Cols]_vars

\* ---- sessions with Adjust, WriteOut and Write around and between the keys ---
ColsRender == {0, 3}

InitRender ==
    /\ \E cols \in ColsRender, prov \in Providers : e = Sized(cols, prov)
    /\ status = "idle"
    /\ result = <<>>
    /\ err = "nil"
    /\ key = "none"
    /\ out = <<>>
    /\ outErr = FALSE
    /\ ioerr = "none"
    /\ typed = [ok |-> FALSE, s |-> <<>>]
    /\ pend = <<>>
    /\ inp = <<>>
    /\ call = NoCall
    /\ conc = NoConc

\* the answers of the terminal to the probe: a narrow and a wide window, a
\* column count that does not fit in an int, no report, and silence
ResponsesRender ==
    {Report(<<"5">>, <<"0", "3">>),
     Report(<<"5">>, <<"1", "0", "0">>),
     Report(<<"5">>, [MaxIntNumeral EXCEPT ![Len(MaxIntNumeral)] = "8"]),
     <<"R">>,
     <<>>}

AdjustReadRender ==
    /\ call.pc = "sent"
    /\ AdjustReadFrom(ResponsesRender)

NextRender ==
    \/ Start
    \/ KeyEnter
    \/ KeyTab
    \/ KeyBackspace
    \/ KeyCtrlL
    \/ KeyCtrlB
    \/ KeyCtrlF
    \/ KeyCtrlA
    \/ KeyCtrlE
    \/ KeyInsert
    \/ KeyHelp
    \/ AdjustProbe
    \/ AdjustReadRender
    \/ WriteOut
    \/ Write

SpecRender == InitRender /\ [][NextRender]_vars

\* the block of a render on one row: "\r", Prompt, Buffer, hint, erase to the
\* end of the line, "\r", and cursor-right k when k > 0
OneRowBlock(buf, cur) ==
    LET k == Len(Prompt) + cur
    IN <<CR>> \o Text(Prompt) \o Text(buf) \o Text(HintFn(buf)) \o <<EL0, CR>>
       \o (IF k > 0 THEN <<Tok("CUF", k)>> ELSE <<>>)

FitsOneRow(term) ==
    /\ Len(Prompt) + Len(term.Buffer) + Len(HintFn(term.Buffer)) < term.Cols
    /\ ~(term.Cur = Len(term.Buffer) /\ (Len(Prompt) + term.Cur) % term.Cols = 0)

\* a step whose render starts with MaxRows = 0 and stays on one row: a key
\* command, the start of a session or WriteOut, with all its writes taken
OneRowStep ==
    /\ ioerr' = "none"
    /\ out' # <<>>
    /\ out' # BellOnly
    /\ key' \notin {"Write", "Adjust"}
    /\ (key' = "start" \/ e.MaxRows = 0)
    /\ FitsOneRow(e')

\* a bell is a flushed block of its own
BellAlone ==
    \A i \in DOMAIN out' :
       (\E j \in DOMAIN out'[i] : out'[i][j] = BEL) => out'[i] = <<BEL>>

\* what the bufio.Writer holds when the render of the step begins: what an
\* earlier Adjust left there, and what the command itself wrote
BeforeRender ==
    CASE key' = "start" -> pend
      [] key' = "ctrlL" -> clearScreen
      [] key' = "tab" ->
           IF e.Complete /\ Len(CompleteFn(e.Buffer)) > 1
           THEN completeGrid(CompleteFn(e.Buffer)) ELSE <<>>
      [] key' = "?" -> IF e.Help THEN helpTable(HelpFn(e.Buffer)) ELSE <<>>
      [] OTHER -> <<>>

\* C25 as stated: under the three conditions the block the render flushes is
\* "\r", Prompt, Buffer, hint, erase-to-end, "\r", cursor-right pw+cw and no
\* other bytes; a bell is a block of its own.
C25_ExactBlock ==
    [][/\ OneRowStep => out'[Len(out')] = OneRowBlock(e'.Buffer, e'.Cur)
       /\ BellAlone]_vars

\* C25 (amended): under the three conditions the render writes exactly "\r",
\* Prompt, Buffer, hint, erase-to-end, "\r", cursor-right pw+cw, and its Flush
\* sends them as one block behind what the bufio.Writer held when the render
\* began: the cursor-restore of an earlier Adjust (first render of a session),
\* clear-screen (ctrl-L), the candidate grid (tab), the help table ('?'),
\* nothing for every other command.  WriteOut flushes its payload as a block
\* before.  A bell is a block of its own.
C25_OneRowRender ==
    [][/\ OneRowStep =>
             LET exp == OneRowBlock(e'.Buffer, e'.Cur)
             IN IF key' = "WriteOut"
                THEN out' = << pend \o <<CR, EL0>> \o ReplaceLF(call'.arg), exp >>
                ELSE out' = << BeforeRender \o exp >>
       /\ BellAlone]_vars

\* the first render of a session after Adjust: the restore sequence and the
\* prompt in one block
C25_Witness ==
    /\ status = "edit"
    /\ key = "start"
    /\ call.op = "Adjust"
    /\ call.err = "nil"
    /\ e.Cols = 100
    /\ out = << Restore \o <<CR, Ch(">"), Ch(" "), EL0, CR, Tok("CUF", 2)>> >>

Redraws == {"ctrlL", "WriteOut"}

\* the render's part of what a redraw flushed
RedrawRender(k, o) ==
    IF k = "ctrlL" THEN SubSeq(o[1], Len(clearScreen) + 1, Len(o[1])) ELSE o[Len(o)]

\* C26: a render with no mutation since the last successful render (ctrl-L, or
\* WriteOut between two keys) leaves Buffer, Cur, OldCur and MaxRows as they
\* were, and two such renders in a row write the same bytes.
C26_RedrawIdempotent ==
    [][(status = "edit" /\ ~outErr /\ key' \in Redraws) =>
          /\ e'.Buffer = e.Buffer
          /\ e'.Cur = e.Cur
          /\ e'.OldCur = e.OldCur
          /\ e'.MaxRows = e.MaxRows
          /\ (key \in Redraws /\ ioerr' = "none") =>
                RedrawRender(key', out') = RedrawRender(key, out)]_vars

C26_Witness ==
    /\ status = "edit"
    /\ key = "ctrlL"
    /\ ioerr = "none"
    /\ e.Cols = 3
    /\ e.MaxRows >= 1
    /\ Len(e.Buffer) = 2
    /\ e.Cur = 1
    /\ call.op = "WriteOut"
    /\ call.err = "nil"
    /\ Len(out) = 1

\* ---------------------------------------------------------------------
\* History pointer at the start of a session
\* ---------------------------------------------------------------------

\* C27: when a LineEditor session begins, the history pointer is at the
\* scratch slot (the last line of the store), so that the first history-prev
\* saves what was typed and a later history-next brings it back.
C27_SessionStartsAtScratch ==
    [][key' = "start" =>
         (e'.History.Lines = <<>> \/ e'.History.Pos = Len(e'.History.Lines) - 1)]_vars

\* ---------------------------------------------------------------------
\* WriteOut called from another thread while a key command runs
\* ---------------------------------------------------------------------
\* Thread E is the LineEditor loop inside one key command, thread W is a
\* WriteOut call.  Every read or write of a field of the Terminal is a step of
\* its own, and so is every writeString: both threads write to the one
\* bufio.Writer e.Out (pend), and a Flush by either sends all that both have
\* written so far to the sink as one block.  The steps of the two threads
\* interleave freely (the Terminal has no lock); a writeString and a Flush
\* are each one step: writes to Out are mutually exclusive.  Writes succeed
\* here.  The keys start with the cursor at the end of the buffer, so the
\* copy of editBackspace moves no rune and the range loop reads the runes the
\* slice had when the loop began.  Cur, OldCur and MaxRows are one word each.
\* e.Buffer is a slice header of three words: editBackspace changes its
\* length only, editHistoryPrev replaces pointer, length and capacity, and a
\* load of the header that races with that store can get the pointer of one
\* slice with the length of the other.

ConcKeys == {"ctrlP", "backspace"}

PayloadsConc == {<<"b">>}

ProvidersConc == {[Complete |-> TRUE, Help |-> TRUE, Hint |-> FALSE]}

ColsConc == {4}

\* the line in the history
LineConc == <<"a", "a">>

\* runes typed before the key
MaxTyped == 1

RECURSIVE TypeRunes(_, _)
\* the Terminal after n more runes "a" were typed
TypeRunes(e1, n) == IF n = 0 THEN e1 ELSE TypeRunes(editInsert(e1, "a", TRUE).e, n - 1)

\* a session that began after History.Add("aa") and in which 0..MaxTyped
\* runes were typed
InitConc ==
    /\ \E prov \in ProvidersConc, cols \in ColsConc, n \in 0..MaxTyped :
         LET t0 == Sized(cols, prov)
             t1 == [t0 EXCEPT !.History = HistAdd(t0.History, LineConc)]
         IN e = TypeRunes(LineReset(t1, TRUE).e, n)
    /\ status = "edit"
    /\ result = <<>>
    /\ err = "nil"
    /\ key = "start"
    /\ out = <<>>
    /\ outErr = FALSE
    /\ ioerr = "none"
    /\ typed = [ok |-> FALSE, s |-> <<>>]
    /\ pend = <<>>
    /\ inp = <<>>
    /\ call = NoCall
    /\ conc = NoConc

ConcFrame == UNCHANGED <<status, result, err, outErr, ioerr, typed, inp, call>>

\* thread t is at pc and has made the writes that come before it
At(t, pc) == conc[t].pc = pc /\ conc[t].todo = <<>>

Goto(t, pc) == [conc EXCEPT ![t].pc = pc]

\* the non-empty ones of the strings ws, in order: a writeString of "" adds
\* nothing to the writer
Writes(ws) == SelectSeq(ws, LAMBDA w : w # <<>>)

\* one writeString (or write) into the bufio.Writer
RWrite(t) ==
    /\ conc[t].todo # <<>>
    /\ pend' = pend \o Head(conc[t].todo)
    /\ conc' = [conc EXCEPT ![t].todo = Tail(conc[t].todo)]
    /\ UNCHANGED <<e, key, out>>
    /\ ConcFrame

\* the loop reads a key and enters its edit operation: the test e.Cur == 0 of
\* editBackspace and editMoveLeft, or Save and Prev of editHistoryPrev (only
\* this thread touches History); the bell when the operation does not apply
EBegin ==
    /\ At("E", "idle")
    /\ \E k \in ConcKeys :
         /\ key' = k
         /\ IF k = "ctrlP"
            THEN LET saved == HistSave(e.History, e.Buffer)
                     pr == HistPrev(saved)
                 IN IF pr.err
                    THEN /\ e' = [e EXCEPT !.History = saved]
                         /\ conc' = [conc EXCEPT !.E.pc = "beepFlush", !.E.cmd = k,
                                                 !.E.todo = << <<BEL>> >>]
                    ELSE /\ e' = [e EXCEPT !.History = pr.h]
                         /\ conc' = [conc EXCEPT !.E.pc = "setBuffer", !.E.cmd = k]
            ELSE /\ e' = e
                 /\ IF e.Cur = 0
                    THEN conc' = [conc EXCEPT !.E.pc = "beepFlush", !.E.cmd = k,
                                              !.E.todo = << <<BEL>> >>]
                    ELSE conc' = [conc EXCEPT !.E.pc = "dec", !.E.cmd = k]
    /\ UNCHANGED <<out, pend>>
    /\ ConcFrame

\* beep: e.Out.Flush()
EBeepFlush ==
    /\ At("E", "beepFlush")
    /\ out' = IF pend = <<>> THEN out ELSE Append(out, pend)
    /\ pend' = <<>>
    /\ conc' = Goto("E", "done")
    /\ UNCHANGED <<e, key>>
    /\ ConcFrame

\* editBackspace, editMoveLeft: e.Cur--
EDec ==
    /\ At("E", "dec")
    /\ e' = [e EXCEPT !.Cur = e.Cur - 1]
    /\ conc' = Goto("E", IF conc.E.cmd = "backspace" THEN "cut" ELSE "hint")
    /\ UNCHANGED <<key, out, pend>>
    /\ ConcFrame

\* editBackspace: the rune at index e.Cur is cut out of e.Buffer
ECutBuffer ==
    /\ At("E", "cut")
    /\ e' = [e EXCEPT !.Buffer = RemoveAt(e.Buffer, e.Cur + 1)]
    /\ conc' = Goto("E", "hint")
    /\ UNCHANGED <<key, out, pend>>
    /\ ConcFrame

\* the runes that memory behind the end of an array is taken to hold (zero
\* in the spare capacity of a fresh array)
JunkRunes == {"NUL"}

\* the slices of length n that start at array arr: its runes, and behind
\* them whatever the memory holds
Header(arr, n) ==
    {SubSeq(arr, 1, Min(n, Len(arr))) \o tl : tl \in [1..(n - Min(n, Len(arr))) -> JunkRunes]}

\* the values a load of e.Buffer can give while the store of line 358 is
\* under way: the old slice, the new one, or the pointer of one with the
\* length of the other
Torn(old, new) == {old, new} \cup Header(old, Len(new)) \cup Header(new, Len(old))

\* thread E is about to store, or is storing, the new slice (from History.Get
\* on it touches nothing else before the store is done)
Storing == conc.E.pc = "setBuffer"

\* what a load of e.Buffer by thread t can give
BufferViews(t) ==
    IF t = "W" /\ Storing THEN Torn(e.Buffer, HistGet(e.History)) ELSE {e.Buffer}

\* what a load of len(e.Buffer), one word, by thread t can give
LenViews(t) ==
    IF t = "W" /\ Storing THEN {Len(e.Buffer), Len(HistGet(e.History))} ELSE {Len(e.Buffer)}

\* editHistoryPrev: e.Buffer = []rune(e.History.Get()), the store completed
ESetBuffer ==
    /\ At("E", "setBuffer")
    /\ e' = [e EXCEPT !.Buffer = HistGet(e.History)]
    /\ conc' = Goto("E", "setCur")
    /\ UNCHANGED <<key, out, pend>>
    /\ ConcFrame

\* editHistoryPrev: e.Cur = len(e.Buffer)
ESetCur ==
    /\ At("E", "setCur")
    /\ e' = [e EXCEPT !.Cur = Len(e.Buffer)]
    /\ conc' = Goto("E", "hint")
    /\ UNCHANGED <<key, out, pend>>
    /\ ConcFrame

\* WriteOut: notZero; "\r\x1b[0K" and the payload are the next two writes
WBegin ==
    /\ At("W", "idle")
    /\ \E b \in PayloadsConc :
         conc' = [conc EXCEPT !.W.pc = "flushPayload", !.W.cmd = "WriteOut",
                              !.W.todo = Writes(<< <<CR, EL0>>, ReplaceLF(b) >>)]
    /\ e' = notZero(e)
    /\ UNCHANGED <<key, out, pend>>
    /\ ConcFrame

\* WriteOut: ew.flush(), then refreshLine is called
WFlushPayload ==
    /\ At("W", "flushPayload")
    /\ out' = IF pend = <<>> THEN out ELSE Append(out, pend)
    /\ pend' = <<>>
    /\ conc' = Goto("W", "hint")
    /\ UNCHANGED <<e, key>>
    /\ ConcFrame

\* refreshLine: hintStr := e.hint(), which reads e.Buffer
RHint(t) ==
    /\ At(t, "hint")
    /\ \E v \in (IF e.Hint THEN BufferViews(t) ELSE {e.Buffer}) :
         conc' = [conc EXCEPT ![t].pc = "range",
                              ![t].hintStr = hint([e EXCEPT !.Buffer = v])]
    /\ UNCHANGED <<e, key, out, pend>>
    /\ ConcFrame

\* refreshLine: for i, r := range e.Buffer evaluates e.Buffer once
RRange(t) ==
    /\ At(t, "range")
    /\ \E v \in BufferViews(t) :
         conc' = [conc EXCEPT ![t].pc = IF v = <<>> THEN "measured" ELSE "loopCur",
                              ![t].rng = v, ![t].i = 0,
                              ![t].cw = 0, ![t].ocw = 0, ![t].bw = 0]
    /\ UNCHANGED <<e, key, out, pend>>
    /\ ConcFrame

\* refreshLine, in the loop: if i < e.Cur { cw += width }
RLoopCur(t) ==
    /\ At(t, "loopCur")
    /\ LET l == conc[t]
       IN conc' = [conc EXCEPT ![t].pc = "loopOldCur",
                               ![t].cw = IF l.i < e.Cur
                                         THEN l.cw + defaultWidth(l.rng[l.i + 1]) ELSE l.cw,
                               ![t].bad = (l.bad \/ e.Cur < 0 \/ e.Cur > Len(l.rng))]
    /\ UNCHANGED <<e, key, out, pend>>
    /\ ConcFrame

\* refreshLine, in the loop: if i < e.OldCur { ocw += width }; bw += width
RLoopOldCur(t) ==
    /\ At(t, "loopOldCur")
    /\ LET l == conc[t]
           w == defaultWidth(l.rng[l.i + 1])
       IN conc' = [conc EXCEPT ![t].pc = IF l.i + 1 = Len(l.rng) THEN "measured"
                                         ELSE "loopCur",
                               ![t].ocw = IF l.i < e.OldCur THEN l.ocw + w ELSE l.ocw,
                               ![t].bw = l.bw + w,
                               ![t].i = l.i + 1]
    /\ UNCHANGED <<e, key, out, pend>>
    /\ ConcFrame

\* refreshLine: the width of the hint, and ep, cp, ocp from e.Cols
RMeasured(t) ==
    /\ At(t, "measured")
    /\ LET l == conc[t]
           pw == visualWidth(Prompt)
           hw == SumWidth(l.hintStr)
       IN conc' = [conc EXCEPT ![t].pc = "oldRows",
                               ![t].epRows = (pw + l.bw + hw) \div e.Cols,
                               ![t].cpCols = (pw + l.cw) % e.Cols,
                               ![t].cpRows = (pw + l.cw) \div e.Cols,
                               ![t].ocpRows = (pw + l.ocw) \div e.Cols]
    /\ UNCHANGED <<e, key, out, pend>>
    /\ ConcFrame

\* refreshLine: oldRows := e.MaxRows
ROldRows(t) ==
    /\ At(t, "oldRows")
    /\ conc' = [conc EXCEPT ![t].pc = "testRows", ![t].oldRows = e.MaxRows]
    /\ UNCHANGED <<e, key, out, pend>>
    /\ ConcFrame

\* the writes of refreshLine from the move to the bottom to the prompt
HeadWrites(l) ==
    (IF l.oldRows - l.ocpRows > 0 THEN << <<Tok("CUD", l.oldRows - l.ocpRows)>> >> ELSE <<>>)
    \o Repeat(<< <<EL2>>, <<Tok("CUU", 1)>> >>, l.oldRows - 1)
    \o << <<CR>>, Text(Prompt) >>

\* refreshLine: if ep.rows > e.MaxRows, the test
RTestRows(t) ==
    /\ At(t, "testRows")
    /\ IF conc[t].epRows > e.MaxRows
       THEN conc' = Goto(t, "setRows")
       ELSE conc' = [conc EXCEPT ![t].pc = "rBuffer", ![t].todo = HeadWrites(conc[t])]
    /\ UNCHANGED <<e, key, out, pend>>
    /\ ConcFrame

\* refreshLine: e.MaxRows = ep.rows
RSetRows(t) ==
    /\ At(t, "setRows")
    /\ e' = [e EXCEPT !.MaxRows = conc[t].epRows]
    /\ conc' = [conc EXCEPT ![t].pc = "rBuffer", ![t].todo = HeadWrites(conc[t]),
                            ![t].wrote = Max(conc[t].wrote, conc[t].epRows)]
    /\ UNCHANGED <<key, out, pend>>
    /\ ConcFrame

\* refreshLine, line 612: string(e.Buffer) is evaluated; its writeString, the
\* one of the hint and "\x1b[0K" are the next writes
RReadBuffer(t) ==
    /\ At(t, "rBuffer")
    /\ \E v \in BufferViews(t) :
         conc' = [conc EXCEPT ![t].pc = "edgeCur",
                              ![t].todo = Writes(<< Text(v), Text(conc[t].hintStr), <<EL0>> >>)]
    /\ UNCHANGED <<e, key, out, pend>>
    /\ ConcFrame

\* the writes of refreshLine after the edge case: up, "\r", right
TailWrites(epRows, cpRows, cpCols) ==
    (IF epRows - cpRows > 0 THEN << <<Tok("CUU", epRows - cpRows)>> >> ELSE <<>>)
    \o << <<CR>> >>
    \o (IF cpCols > 0 THEN << <<Tok("CUF", cpCols)>> >> ELSE <<>>)

\* refreshLine, the edge test: e.Cur is read
REdgeCur(t) ==
    /\ At(t, "edgeCur")
    /\ conc' = [conc EXCEPT ![t].pc = "edgeLen", ![t].edgeCur = e.Cur]
    /\ UNCHANGED <<e, key, out, pend>>
    /\ ConcFrame

\* refreshLine, the edge test: == len(e.Buffer) && cp.cols == 0; at the edge
\* "\n\r" is the next write and cp.rows, ep.rows are increased
REdgeLen(t) ==
    /\ At(t, "edgeLen")
    /\ \E n \in LenViews(t) :
         LET l == conc[t]
             isBad == l.bad \/ l.edgeCur < 0 \/ l.edgeCur > n
         IN IF l.edgeCur = n /\ l.cpCols = 0
            THEN conc' = [conc EXCEPT ![t].pc = "edgeTest", ![t].todo = << <<LF, CR>> >>,
                                      ![t].cpRows = l.cpRows + 1,
                                      ![t].epRows = l.epRows + 1,
                                      ![t].bad = isBad]
            ELSE conc' = [conc EXCEPT ![t].pc = "flush",
                                      ![t].todo = TailWrites(l.epRows, l.cpRows, l.cpCols),
                                      ![t].bad = isBad]
    /\ UNCHANGED <<e, key, out, pend>>
    /\ ConcFrame

\* refreshLine, at the edge: if ep.rows > e.MaxRows, the test
REdgeTest(t) ==
    /\ At(t, "edgeTest")
    /\ LET l == conc[t]
       IN IF l.epRows > e.MaxRows
          THEN conc' = Goto(t, "edgeSet")
          ELSE conc' = [conc EXCEPT ![t].pc = "flush",
                                    ![t].todo = TailWrites(l.epRows, l.cpRows, l.cpCols)]
    /\ UNCHANGED <<e, key, out, pend>>
    /\ ConcFrame

\* refreshLine, at the edge: e.MaxRows = ep.rows
REdgeSet(t) ==
    /\ At(t, "edgeSet")
    /\ LET l == conc[t]
       IN /\ e' = [e EXCEPT !.MaxRows = l.epRows]
          /\ conc' = [conc EXCEPT ![t].pc = "flush",
                                  ![t].todo = TailWrites(l.epRows, l.cpRows, l.cpCols),
                                  ![t].wrote = Max(l.wrote, l.epRows)]
    /\ UNCHANGED <<key, out, pend>>
    /\ ConcFrame

\* refreshLine: ew.flush()
RFlush(t) ==
    /\ At(t, "flush")
    /\ out' = IF pend = <<>> THEN out ELSE Append(out, pend)
    /\ pend' = <<>>
    /\ conc' = Goto(t, "readCur")
    /\ UNCHANGED <<e, key>>
    /\ ConcFrame

\* refreshLine: e.OldCur = e.Cur, the load
RReadCur(t) ==
    /\ At(t, "readCur")
    /\ conc' = [conc EXCEPT ![t].pc = "setOldCur", ![t].cur = e.Cur]
    /\ UNCHANGED <<e, key, out, pend>>
    /\ ConcFrame

\* refreshLine: e.OldCur = e.Cur, the store
RSetOldCur(t) ==
    /\ At(t, "setOldCur")
    /\ e' = [e EXCEPT !.OldCur = conc[t].cur]
    /\ conc' = Goto(t, "done")
    /\ UNCHANGED <<key, out, pend>>
    /\ ConcFrame

Threads == {"E", "W"}

NextConc ==
    \/ EBegin
    \/ EBeepFlush
    \/ EDec
    \/ ECutBuffer
    \/ ESetBuffer
    \/ ESetCur
    \/ WBegin
    \/ WFlushPayload
    \/ \E t \in Threads : RWrite(t)
    \/ \E t \in Threads : RHint(t)
    \/ \E t \in Threads : RRange(t)
    \/ \E t \in Threads : RLoopCur(t)
    \/ \E t \in Threads : RLoopOldCur(t)
    \/ \E t \in Threads : RMeasured(t)
    \/ \E t \in Threads : ROldRows(t)
    \/ \E t \in Threads : RTestRows(t)
    \/ \E t \in Threads : RSetRows(t)
    \/ \E t \in Threads : RReadBuffer(t)
    \/ \E t \in Threads : REdgeCur(t)
    \/ \E t \in Threads : REdgeLen(t)
    \/ \E t \in Threads : REdgeTest(t)
    \/ \E t \in Threads : REdgeSet(t)
    \/ \E t \in Threads : RFlush(t)
    \/ \E t \in Threads : RReadCur(t)
    \/ \E t \in Threads : RSetOldCur(t)

SpecConc == InitConc /\ [][NextConc]_vars

\* every Cur that WriteOut's render read, in the loop and in the edge test,
\* was inside the buffer the render read
SeenInRange == ~conc.W.bad

\* once both threads are through, MaxRows is at least every value a render
\* assigned to it and OldCur is the cursor
NoLostUpdate ==
    (At("E", "done") /\ At("W", "done")) =>
        /\ e.MaxRows >= conc.E.wrote
        /\ e.MaxRows >= conc.W.wrote
        /\ e.OldCur = e.Cur

\* C29: with the sink serialized and everything else interleaved, the render
\* inside a concurrent WriteOut always sees 0 <= Cur <= len(Buffer), and no
\* update of OldCur or MaxRows made by either render is lost.
C29_SerializedSinkSuffices == SeenInRange /\ NoLostUpdate

====
